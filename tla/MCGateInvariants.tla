-------------------------- MODULE MCGateInvariants --------------------------
(***************************************************************************)
(* A bounded set of attestations for GateVerdict.                          *)
(***************************************************************************)
EXTENDS GateVerdict

\* Values one below, at and one above each limit, both signs of the overflow.
MCRaws ==
  [kind : {"int", "float"}, value : {0, EmissiveLimit - 1, EmissiveLimit,
     EmissiveLimit + 1, Int64Max, Int64Max + 1, -Int64Max, -Int64Max - 1}]
  \cup [kind : RawKinds \ {"int", "float"}, value : {0}]

MCMetric == [name : MetricNames, raw : MCRaws]

Over == [kind |-> "int", value |-> EmissiveLimit + 1]
NaN  == [kind |-> "nan", value |-> 0]

MCMetrics ==
  {<<>>} \cup {<<m>> : m \in MCMetric}
  \cup {<<[name |-> "latency", raw |-> NaN], [name |-> "emissive_budget", raw |-> Over]>>,
        <<[name |-> "roi_drift", raw |-> NaN], [name |-> "latency", raw |-> NaN]>>}

MCStatuses == {<<>>, <<"PASS">>, <<"EXACT_MATCH", "PASS">>, <<"true">>,
               <<"FAIL">>, <<"PASS", "FAIL">>}

MCAttestations ==
  {a \in [schema_version    : {"", "2.0"},
          hash_mode         : {"", "raw", "KS-salted"},
          signature         : {"absent", "malformed", "hex128"},
          signer            : {"", "tier_a"},
          source_invariants : MCStatuses,
          has_fingerprint   : BOOLEAN,
          roi_is_dict       : BOOLEAN,
          roi_hashes        : MCStatuses,
          metrics           : MCMetrics] :
     /\ a.roi_hashes # <<>> => a.has_fingerprint /\ a.roi_is_dict
     /\ ~a.roi_is_dict => a.has_fingerprint}

=============================================================================
