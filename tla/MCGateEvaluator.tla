-------------------------- MODULE MCGateEvaluator --------------------------
(***************************************************************************)
(* The evaluator under final_gate_policy.yaml, its key sets cut to two of  *)
(* each kind, beside classes the loader accepts and the file does not      *)
(* hold: a disabled one, and one that spells every escalation.             *)
(***************************************************************************)
EXTENDS GateEvaluator


MCModes        == {"curated", "controlled_generative", "vendor_intake", "unheard_of"}
MCClasses      == {"gaming_cosmetic", "retired", "partner", "supplier", "absent"}
MCRefKeys      == {"canonical_scene_id", "attestation_schema_version"}
MCRefValues    == {"scene_v1", "2.0", "old"}
MCInvariants   == {"mesh", "palette"}
MCFingerprints == {"silhouette", "pixel"}
MCSigners      == {"tier_a", "tier_c"}
MCMetricKeys   == {"palette.max", "mask_iou.min"}

Fixed(n)  == [kind |-> "int", n |-> n]
Tenths(n) == [kind |-> "float", n |-> n]
AtMost(v)  == [bound |-> "max", limit |-> v]
AtLeast(v) == [bound |-> "min", limit |-> v]

Strict ==
  [invariants |-> MCInvariants, exact |-> None, fingerprint |-> MCFingerprints,
   thresholds |-> [k \in MCMetricKeys |-> None], psi |-> 1, onFailure |-> "REJECT"]

Generative(palette, iou, onFailure) ==
  [invariants  |-> {"mesh"}, exact |-> {"silhouette"}, fingerprint |-> {},
   thresholds  |-> [k \in MCMetricKeys |-> IF k = "palette.max" THEN AtMost(palette)
                                                               ELSE AtLeast(iou)],
   psi |-> 1, onFailure |-> onFailure]

Cosmetic ==
  [enabled |-> TRUE,
   refs    |-> [k \in MCRefKeys |-> IF k = "canonical_scene_id" THEN "scene_v1" ELSE "2.0"],
   modes   |-> [m \in MCModes |->
     CASE m = "curated"               -> Strict
       [] m = "controlled_generative" -> Generative(Tenths(30), Fixed(997000), "REJECT")
       [] m = "vendor_intake"         -> Generative(Tenths(20), Fixed(998000), "QUARANTINE")
       [] OTHER                       -> None],
   badSignature |-> "REJECT", noSignature |-> "REJECT"]

\* An exact numeric requirement, a psi of 0, no refs, the other escalations.
Partner ==
  [Cosmetic EXCEPT
     !.refs = [k \in MCRefKeys |-> None],
     !.modes["curated"].psi = 0,
     !.modes["controlled_generative"].thresholds["palette.max"] =
        [bound |-> "exact", limit |-> Fixed(0)],
     !.badSignature = "QUARANTINED", !.noSignature = "QUARANTINE"]

MCPolicy ==
  [c \in MCClasses |->
     CASE c = "gaming_cosmetic" -> Cosmetic
       [] c = "partner"         -> Partner
       [] c = "supplier"        -> [Cosmetic EXCEPT !.badSignature = "QUARANTINE"]
       [] c = "retired"         -> [Cosmetic EXCEPT !.enabled = FALSE]
       [] OTHER                 -> None]

-----------------------------------------------------------------------------
Good ==
  [complete |-> TRUE, version |-> "2.0", hashMode |-> "KS-salted",
   signature |-> "wellFormed", signer |-> "tier_a",
   refs |-> [k \in MCRefKeys |-> IF k = "canonical_scene_id" THEN "scene_v1" ELSE "2.0"],
   refsIsList |-> FALSE, mode |-> None, modeIsList |-> FALSE,
   invariants |-> MCInvariants, fingerprint |-> MCFingerprints,
   metrics |-> [k \in MCMetricKeys |-> IF k = "palette.max" THEN Tenths(15) ELSE Fixed(998000)]]

\* Every combination of what steps 1 to 4 read, and of what steps 4 to 6 read.
Origins ==
  {[Good EXCEPT !.complete = c, !.version = v, !.hashMode = h, !.signature = s,
                !.signer = g] :
     c \in BOOLEAN, v \in {"2.0", "old", None}, h \in {"KS-salted", "raw", None},
     s \in {"wellFormed", "malformed", "empty"}, g \in MCSigners \cup {"unknown", "object", None}}
  \cup
  {[Good EXCEPT !.signer = g, !.refs["canonical_scene_id"] = r, !.refsIsList = l,
                !.mode = m, !.modeIsList = u] :
     g \in {"tier_c", "unknown"}, r \in {"scene_v1", "old", None}, l \in BOOLEAN,
     m \in {"vendor_intake", "unheard_of", None}, u \in BOOLEAN}

\* Every combination of what the content steps read, on a sound foundation:
\* values below, at and above the limits, and each kind that is no number.
Unnumbered  == [kind : {"text", "list", "object", "absent"}, n : {0}]
PaletteRead == Unnumbered \cup {Tenths(20), Tenths(30), Tenths(31), Fixed(90)}
IoURead     == Unnumbered \cup {Fixed(996999), Fixed(997000), Fixed(998000)}

Assets ==
  {[Good EXCEPT !.invariants = i, !.fingerprint = f, !.mode = m,
                !.metrics = [k \in MCMetricKeys |-> IF k = "palette.max" THEN p ELSE q]] :
     i \in SUBSET MCInvariants, f \in SUBSET MCFingerprints,
     m \in {"controlled_generative", "vendor_intake"},
     p \in PaletteRead, q \in IoURead}

MCAttestations == Origins \cup Assets

-----------------------------------------------------------------------------
\* signer_minimum_tier of the modes, as the tiers that meet it.
SufficientTiers ==
  [m \in MCModes |-> CASE m \in {"curated", "vendor_intake"} -> {"tier_a"}
                       [] m = "controlled_generative" -> {"tier_a", "tier_b"}
                       [] OTHER -> {}]

\* The policy file's step 4 fails a signer whose "tier [is] insufficient for
\* mode", and "Tier C = diagnostic only - cannot approve production assets":
\* an approved cosmetic is signed by a tier its mode accepts.
TierSuffices ==
  outcome = "APPROVED" /\ class = "gaming_cosmetic" =>
    att.signer \in SufficientTiers[mode]

=============================================================================
