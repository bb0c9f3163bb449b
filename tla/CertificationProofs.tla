------------------------ MODULE CertificationProofs ------------------------
(***************************************************************************)
(* Proofs about Certification, for any sessions, frames, renders and       *)
(* faults: what a passport contains was submitted by its own session and   *)
(* decided by the gate, and the frames of its last take are all in it.     *)
(*                                                                         *)
(* The argument counts.  Each take pays for one submission of each file    *)
(* name; while the hook runs, what it has sent and what it still has to    *)
(* send is paid for, and what it has got approved are the last submissions *)
(* of all, one for each file it is done with.  The bytes of a file are the *)
(* submitted ones as long as no other program changed it.                  *)
(***************************************************************************)
EXTENDS Certification, FiniteSetTheorems, SequenceTheorems,
        WellFoundedInduction, TLAPS

-----------------------------------------------------------------------------
(* The inductive invariant *)

\* The submission whose answer the hook waits for counts as sent and as to do.
Waiting == IF callback.phase = "wait" THEN 1 ELSE 0

\* Every submission, sent or still to come, is paid for by a take.
Budget ==
  /\ Len(sent) + Cardinality(callback.todo) - Waiting <= takes * Cardinality(Names)
  /\ rendering # NoSession =>
       /\ takes \in 1 .. MaxTakes
       /\ callback = Returned
       /\ Len(sent) + Cardinality(Names) <= takes * Cardinality(Names)

\* The callback's session, the files it listed, and the frame it waits for.
CallbackOK ==
  /\ callback.phase = "returned" => callback = Returned
  /\ callback.phase # "returned" => callback.session \in Sessions
  /\ callback.phase = "passport" => callback.todo = {}
  /\ callback.phase = "wait" =>
       /\ callback.todo # {}
       /\ sent # <<>>
       /\ sent[Len(sent)].session = callback.session
       /\ sent[Len(sent)].name = NextFile
       /\ NextFile \in changed \/ sent[Len(sent)].frame = disk[NextFile]

\* The gate has decided a submission of the session.
Decided(s, r) ==
  /\ r \in DOMAIN sent
  /\ sent[r].session = s
  /\ reply[r] \in {"admitted", "refused"}

Increasing(p) == \A i, j \in DOMAIN p : i < j => p[i] < p[j]

\* The submission under way is not among the results yet.
ResultsDecided ==
  \A s \in Sessions :
    /\ \A i \in DOMAIN results[s] : Decided(s, results[s][i])
    /\ \A i \in DOMAIN passport[s] : Decided(s, passport[s][i])
    /\ Increasing(results[s]) /\ Increasing(passport[s])
    /\ callback.phase = "wait" => \A i \in DOMAIN results[s] : results[s][i] # Len(sent)

\* What the gate has answered is what it has done, and will do.
GateTruth ==
  /\ \A r \in Requests : reply[r] = "admitted" => r \in registered
  /\ \A r \in Requests : reply[r] = "refused" => judged[r] = "psi0"
  /\ \A r \in registered : judged[r] = "psi1"

IInv == TypeOK /\ Budget /\ CallbackOK /\ ResultsDecided /\ GateTruth

-----------------------------------------------------------------------------
(* Lemmas about numbers, sets and sequences *)

\* sorted() has a first element.
LEMMA Smallest ==
  ASSUME NEW S \in SUBSET Nat, S # {}
  PROVE  \E n \in S : \A m \in S : n <= m
  <1>1. PICK x \in S : \A y \in S : ~ (<<y, x>> \in OpToRel(<, Nat))
    BY NatLessThanWellFounded, WFMin, Zenon
  <1>2. \A y \in S : <<y, x>> \in OpToRel(<, Nat) <=> y < x
    BY DEF OpToRel
  <1>3. \A y \in S : ~ (y < x)
    BY <1>1, <1>2
  <1>4. \A y \in S : x \in Nat /\ y \in Nat
    OBVIOUS
  <1>5. \A y \in S : x <= y
    BY <1>3, <1>4
  <1> QED BY <1>5

\* One more take pays for one more submission of each file.
LEMMA Takes ==
  ASSUME NEW a \in Nat, NEW b \in Nat, NEW c \in Nat
  PROVE  /\ a * c \in Nat
         /\ (a + 1) * c = a * c + c
         /\ a <= b => a * c <= b * c
  <1>1. a * c \in Nat /\ b * c \in Nat
    OBVIOUS
  <1>2. (a + 1) * c = a * c + c
    OBVIOUS
  <1>3. ASSUME a <= b PROVE a * c <= b * c
    <2>1. PICK d \in Nat : b = a + d
      <3>1. b - a \in Nat /\ b = a + (b - a)
        BY <1>3
      <3> QED BY <3>1
    <2>2. (a + d) * c = a * c + d * c /\ d * c \in Nat
      OBVIOUS
    <2>3. QED
      BY <1>1, <2>1, <2>2
  <1> QED BY <1>1, <1>2, <1>3

\* A longer sequence has everything the shorter one has, where it was.
LEMMA Appended ==
  ASSUME NEW T, NEW q \in Seq(T), NEW x \in T
  PROVE  \E new \in Seq(T) :
           /\ new = Append(q, x)
           /\ Len(new) = Len(q) + 1 /\ new[Len(new)] = x
           /\ DOMAIN new = 1 .. Len(new) /\ DOMAIN q = 1 .. Len(q) /\ Len(q) \in Nat
           /\ \A i \in DOMAIN q : i \in DOMAIN new /\ new[i] = q[i]
  <1>1. /\ Append(q, x) \in Seq(T) /\ Len(Append(q, x)) = Len(q) + 1
        /\ \A i \in 1 .. Len(q) : Append(q, x)[i] = q[i]
        /\ Append(q, x)[Len(q) + 1] = x
    BY AppendProperties
  <1>2. Len(q) \in Nat /\ DOMAIN q = 1 .. Len(q) /\ DOMAIN Append(q, x) = 1 .. Len(q) + 1
    BY <1>1, LenProperties
  <1>3. PICK new \in Seq(T) : new = Append(q, x)
    BY <1>1
  <1>4. DOMAIN q \subseteq DOMAIN new
    BY <1>2, <1>3
  <1>5. new = Append(q, x) /\ Len(new) = Len(q) + 1 /\ new[Len(new)] = x
    BY <1>1, <1>3
  <1>6. DOMAIN new = 1 .. Len(new)
    BY <1>2, <1>3, <1>5
  <1>7. \A i \in DOMAIN q : i \in DOMAIN new /\ new[i] = q[i]
    BY <1>1, <1>2, <1>3, <1>4
  <1> QED BY <1>2, <1>5, <1>6, <1>7

\* Sets of file names are finite.
LEMMA NameSets ==
  ASSUME NEW S \in SUBSET Names
  PROVE  /\ IsFiniteSet(S)
         /\ Cardinality(S) \in Nat
         /\ Cardinality(S) <= Cardinality(Names)
         /\ Cardinality(Names) \in Nat
  BY FS_Subset, FS_CardinalityType, CertificationAssumption DEF CertificationAssumption

\* The next file is one of those still to submit.
LEMMA NextFileToDo ==
  ASSUME callback.todo \in SUBSET Names, callback.todo # {}
  PROVE  NextFile \in callback.todo
  <1>1. \E n \in callback.todo : \A m \in callback.todo : n <= m
    BY Smallest, CertificationAssumption DEF CertificationAssumption
  <1> QED BY <1>1 DEF NextFile

\* A submission is one of the requests, whoever counts them.
LEMMA SentAreRequests ==
  ASSUME TypeOK
  PROVE  /\ Len(sent) \in Nat
         /\ DOMAIN sent = 1 .. Len(sent)
         /\ DOMAIN sent \subseteq Requests
         /\ \A r \in DOMAIN sent :
              sent[r] \in [session : Sessions, name : Names, frame : Frames]
  <1>1. /\ Len(sent) \in Nat /\ DOMAIN sent = 1 .. Len(sent)
        /\ \A r \in DOMAIN sent :
             sent[r] \in [session : Sessions, name : Names, frame : Frames]
    <2>1. sent \in Seq([session : Sessions, name : Names, frame : Frames])
      BY DEF TypeOK
    <2> QED BY <2>1, LenProperties, ElementOfSeq
  <1>2. Cardinality(Names) \in Nat /\ MaxTakes \in Nat
    BY NameSets, CertificationAssumption DEF CertificationAssumption
  <1>3. takes \in Nat /\ takes <= MaxTakes
    BY <1>2 DEF TypeOK
  <1>4. takes * Cardinality(Names) <= MaxTakes * Cardinality(Names)
        /\ takes * Cardinality(Names) \in Nat /\ MaxTakes * Cardinality(Names) \in Nat
    BY <1>2, <1>3, Takes
  <1>5. Len(sent) <= MaxTakes * Cardinality(Names)
    BY <1>1, <1>4 DEF TypeOK
  <1> QED BY <1>1, <1>4, <1>5 DEF Requests

-----------------------------------------------------------------------------
(* Every step keeps the invariant *)

LEMMA InitIInv == Init => IInv
  <1> SUFFICES ASSUME Init PROVE IInv
    OBVIOUS
  <1> USE CertificationAssumption DEF CertificationAssumption
  <1>1. /\ judged \in [Requests -> {"no", "psi0", "psi1"}]
        /\ registered \subseteq Requests
        /\ reply \in [Requests -> Gate!Replies]
        /\ GateTruth
    BY DEF Init, Gate!Init, Gate!Replies, GateTruth
  <1>2. Cardinality({}) = 0 /\ Cardinality(Names) \in Nat /\ 0 * Cardinality(Names) = 0
    BY FS_EmptySet, NameSets
  <1>3. Len(sent) = 0 /\ sent \in Seq([session : Sessions, name : Names, frame : Frames])
    BY DEF Init
  <1>4. /\ disk \in [Names -> Frames \cup {NoFrame}] /\ changed \subseteq Names
        /\ takes \in 0 .. MaxTakes /\ faults \in 0 .. MaxFaults
    BY DEF Init
  <1>5. /\ results \in [Sessions -> Seq(Requests)] /\ passport \in [Sessions -> Seq(Requests)]
        /\ \A s \in Sessions : DOMAIN results[s] = {} /\ DOMAIN passport[s] = {}
        /\ DOMAIN manifest = Sessions /\ \A s \in Sessions : DOMAIN manifest[s] = {}
    BY DEF Init
  <1>6. callback \in [phase : {"returned", "submit", "wait", "passport"},
                      session : Sessions \cup {NoSession},
                      listed : SUBSET Names, todo : SUBSET Names]
        /\ callback = Returned /\ callback.todo = {} /\ callback.listed = {}
        /\ callback.phase = "returned"
    BY DEF Init, Returned
  <1>7. TypeOK
    BY <1>1, <1>2, <1>3, <1>4, <1>5, <1>6 DEF Init, TypeOK
  <1>8. Budget
    BY <1>2, <1>3, <1>6 DEF Init, Budget, Waiting
  <1>9. CallbackOK /\ ResultsDecided
    BY <1>5, <1>6 DEF CallbackOK, ResultsDecided, Increasing
  <1> QED BY <1>1, <1>7, <1>8, <1>9 DEF IInv

\* What the operator does leaves the gate, the submissions and the results alone.
LEMMA OperatorIInv ==
  ASSUME IInv, Operator
  PROVE  IInv'
  <1> USE DEF IInv
  <1>a. /\ GameThreadFree /\ callback = Returned
        /\ callback.todo = {} /\ callback.listed = {} /\ callback.phase = "returned"
    BY DEF Operator, BeginSession, BindExecutor, StartRender, FinishRender, GameThreadFree,
           CallbackOK, Returned
  <1>b. UNCHANGED <<gate, sent, results, outputs, faults>>
    BY DEF Operator, BeginSession, BindExecutor, StartRender, FinishRender
  <1>w. callback'.phase # "wait"
    BY <1>a DEF Operator, BeginSession, BindExecutor, StartRender, FinishRender, Returned
  <1>c. ResultsDecided' /\ GateTruth'
    BY <1>b, <1>w DEF gate, outputs, ResultsDecided, Decided, Increasing, GateTruth
  <1>n. /\ Cardinality(Names) \in Nat /\ Cardinality({}) = 0 /\ Len(sent) \in Nat
        /\ takes \in Nat /\ takes <= MaxTakes /\ MaxTakes \in Nat
        /\ takes * Cardinality(Names) \in Nat
        /\ (takes + 1) * Cardinality(Names) = takes * Cardinality(Names) + Cardinality(Names)
    BY NameSets, FS_EmptySet, Takes, SentAreRequests, CertificationAssumption
       DEF CertificationAssumption, TypeOK
  <1>1. ASSUME NEW s \in Sessions, BeginSession(s)
        PROVE  IInv'
    <2>1. TypeOK'
      BY <1>1, <1>b DEF gate, outputs, BeginSession, TypeOK
    <2>2. Budget' /\ CallbackOK'
      BY <1>1, <1>a, <1>b DEF BeginSession, Budget, Waiting, CallbackOK, NextFile
    <2> QED BY <2>1, <2>2, <1>c
  <1>4. ASSUME NEW s \in Sessions, BindExecutor(s)
        PROVE  IInv'
    <2>1. TypeOK'
      <3>1. s \in begun /\ bound' = bound \cup {s}
        BY <1>4, CertificationAssumption DEF CertificationAssumption, BindExecutor, TypeOK
      <3>2. bound' \subseteq begun /\ rendering \in bound' \cup {NoSession}
        BY <3>1 DEF TypeOK
      <3> QED BY <1>4, <1>b, <3>2 DEF gate, outputs, BindExecutor, TypeOK
    <2>2. Budget' /\ CallbackOK'
      BY <1>4, <1>a, <1>b DEF BindExecutor, Budget, Waiting, CallbackOK, NextFile
    <2> QED BY <2>1, <2>2, <1>c
  <1>2. ASSUME NEW s \in Sessions, StartRender(s)
        PROVE  IInv'
    <2>1. /\ takes' = takes + 1 /\ takes' \in 1 .. MaxTakes /\ Len(sent') = Len(sent)
          /\ takes' * Cardinality(Names) = takes * Cardinality(Names) + Cardinality(Names)
          /\ Len(sent) <= takes * Cardinality(Names)
          /\ callback' = callback
      BY <1>2, <1>b, <1>n DEF StartRender, TypeOK
    <2>2. TypeOK'
      <3>1. Len(sent') <= takes' * Cardinality(Names)
        BY <2>1, <1>n
      <3> QED BY <1>2, <1>b, <2>1, <3>1 DEF gate, outputs, StartRender, TypeOK
    <2>3. Budget'
      BY <2>1, <1>n, <1>a DEF Budget, Waiting
    <2>4. CallbackOK'
      BY <1>2, <1>a, <1>b DEF StartRender, CallbackOK, NextFile
    <2> QED BY <2>2, <2>3, <2>4, <1>c
  <1>3. ASSUME NEW written \in SUBSET Names, FinishRender(written)
        PROVE  IInv'
    <2>1. /\ rendering \in Sessions /\ takes \in 1 .. MaxTakes /\ takes' = takes
          /\ Len(sent) + Cardinality(Names) <= takes * Cardinality(Names)
      BY <1>3 DEF FinishRender, Budget, TypeOK
    <2>2. disk' \in [Names -> Frames \cup {NoFrame}] /\ changed' \subseteq Names
      <3>1. [scene |-> rendering, take |-> takes] \in Frames
        BY <2>1 DEF Frames
      <3> QED BY <1>3, <3>1 DEF FinishRender, TypeOK
    <2>3. PICK listed \in SUBSET Names :
            /\ listed = {n \in Names : disk'[n] # NoFrame}
            /\ callback' = IF active = NoSession \/ listed = {} THEN Returned
                           ELSE [phase |-> "submit", session |-> active,
                                 listed |-> listed, todo |-> listed]
      <3> DEFINE L == {n \in Names : disk'[n] # NoFrame}
      <3>1. L \in SUBSET Names
        OBVIOUS
      <3> QED BY <1>3, <3>1 DEF FinishRender
    <2>5. /\ callback' \in [phase : {"returned", "submit", "wait", "passport"},
                      session : Sessions \cup {NoSession},
                      listed : SUBSET Names, todo : SUBSET Names]
          /\ callback'.todo \subseteq callback'.listed
          /\ callback'.phase \in {"returned", "submit"}
          /\ callback'.phase = "returned" => callback' = Returned
          /\ callback'.phase = "submit" => callback'.session \in Sessions
          /\ callback'.listed \in {{}, listed} /\ callback'.todo \subseteq Names
      BY <2>3 DEF Returned, TypeOK
    <2>6. TypeOK'
      BY <1>3, <1>b, <2>2, <2>5 DEF gate, outputs, FinishRender, TypeOK
    <2>7. Budget'
      <3>1. Cardinality(callback'.todo) \in Nat /\ Cardinality(callback'.todo) <= Cardinality(Names)
        BY <2>5, NameSets
      <3>2. rendering' = NoSession /\ sent' = sent /\ Waiting' = 0
        BY <1>3, <2>5, <1>b DEF FinishRender, Waiting
      <3> QED BY <3>1, <3>2, <2>1, <1>n DEF Budget
    <2>8. CallbackOK'
      BY <2>5 DEF CallbackOK
    <2> QED BY <2>6, <2>7, <2>8, <1>c
  <1> QED BY <1>1, <1>2, <1>3, <1>4 DEF Operator

\* A frame is sent: what was sent before keeps its place.
LEMMA SubmitIInv ==
  ASSUME IInv, Submit
  PROVE  IInv'
  <1> USE DEF IInv
  <1>1. /\ callback.phase = "submit" /\ callback.session \in Sessions
        /\ callback.todo # {} /\ callback.todo \in SUBSET Names
        /\ callback.todo \subseteq callback.listed /\ rendering = NoSession
    BY DEF Submit, CallbackOK, TypeOK, Budget, Returned
  <1>2. NextFile \in callback.todo /\ NextFile \in Names /\ disk[NextFile] \in Frames
    BY <1>1, NextFileToDo DEF Submit, TypeOK
  <1>3. PICK x \in [session : Sessions, name : Names, frame : Frames] :
          /\ x = [session |-> callback.session, name |-> NextFile, frame |-> disk[NextFile]]
          /\ sent' = Append(sent, x)
    BY <1>1, <1>2 DEF Submit
  <1>4. sent \in Seq([session : Sessions, name : Names, frame : Frames])
    BY DEF TypeOK
  <1>5. /\ sent' \in Seq([session : Sessions, name : Names, frame : Frames])
        /\ Len(sent') = Len(sent) + 1
        /\ sent'[Len(sent')] = x /\ sent' # <<>>
        /\ DOMAIN sent' = 1 .. Len(sent')
        /\ \A r \in DOMAIN sent : r \in DOMAIN sent' /\ sent'[r] = sent[r]
    BY <1>3, <1>4, SentAreRequests
  <1>6. /\ callback' = [callback EXCEPT !.phase = "wait"]
        /\ callback'.phase = "wait" /\ callback'.session = callback.session
        /\ callback'.todo = callback.todo /\ callback'.listed = callback.listed
        /\ UNCHANGED <<gate, editor, results, outputs, faults>>
    BY DEF Submit, TypeOK
  <1>7. Len(sent') + Cardinality(callback'.todo) - 1 <= takes * Cardinality(Names)
        /\ Len(sent') <= takes * Cardinality(Names)
    <2>1. /\ Cardinality(callback.todo) \in Nat /\ Cardinality(callback.todo) # 0
          /\ takes \in Nat /\ Cardinality(Names) \in Nat
      BY <1>1, NameSets, FS_EmptySet, CertificationAssumption
         DEF CertificationAssumption, TypeOK
    <2>2. takes * Cardinality(Names) \in Nat
      BY <2>1, Takes
    <2>3. Len(sent) + Cardinality(callback.todo) <= takes * Cardinality(Names)
      BY <1>1, <2>1, SentAreRequests DEF Budget, Waiting
    <2> QED BY <2>1, <2>2, <2>3, <1>5, <1>6, SentAreRequests
  <1>8. TypeOK'
    <2>1. callback' \in [phase : {"returned", "submit", "wait", "passport"},
                        session : Sessions \cup {NoSession},
                        listed : SUBSET Names, todo : SUBSET Names]
      BY <1>6 DEF TypeOK
    <2> QED BY <1>1, <1>5, <1>6, <1>7, <2>1 DEF gate, editor, outputs, TypeOK
  <1>9. Budget'
    BY <1>1, <1>6, <1>7 DEF editor, Budget, Waiting
  <1>10. CallbackOK'
    BY <1>1, <1>3, <1>5, <1>6 DEF editor, CallbackOK, NextFile
  <1>11. ResultsDecided' /\ GateTruth'
    <2>1. \A s, r : Decided(s, r) => Decided(s, r)' /\ r # Len(sent')
      BY <1>5, <1>6, SentAreRequests DEF gate, Decided
    <2>2. UNCHANGED <<results, passport>> /\ GateTruth'
      BY <1>6 DEF gate, outputs, GateTruth
    <2> QED BY <2>1, <2>2 DEF ResultsDecided, Increasing
  <1> QED BY <1>8, <1>9, <1>10, <1>11

\* A verdict is kept, under the session that submitted the frame.
LEMMA KeepResultOK ==
  ASSUME IInv, callback.phase = "wait", KeepResult,
         reply[Len(sent)] \in {"admitted", "refused"},
         UNCHANGED <<gate, sent, outputs>>, callback'.phase # "wait"
  PROVE  /\ results' \in [Sessions -> Seq(Requests)]
         /\ ResultsDecided'
         /\ \E i \in DOMAIN results'[callback.session] :
              results'[callback.session][i] = Len(sent)
         /\ \A i \in DOMAIN results[callback.session] :
              /\ i \in DOMAIN results'[callback.session]
              /\ results'[callback.session][i] = results[callback.session][i]
  <1> USE DEF IInv
  <1>1. PICK s \in Sessions : s = callback.session
    BY DEF CallbackOK
  <1>2. /\ Len(sent) \in DOMAIN sent /\ Len(sent) \in Requests
        /\ sent[Len(sent)].session = s
    BY <1>1, SentAreRequests DEF CallbackOK, TypeOK
  <1>3. Decided(s, Len(sent))
    BY <1>2 DEF Decided
  <1>4. PICK old \in Seq(Requests) : old = results[s]
    BY DEF TypeOK
  <1>5. PICK new \in Seq(Requests) :
          /\ new = Append(old, Len(sent))
          /\ Len(new) = Len(old) + 1 /\ new[Len(new)] = Len(sent)
          /\ DOMAIN new = 1 .. Len(new) /\ DOMAIN old = 1 .. Len(old) /\ Len(old) \in Nat
          /\ \A i \in DOMAIN old : i \in DOMAIN new /\ new[i] = old[i]
    BY <1>2, Appended
  <1>6. results' = [results EXCEPT ![s] = new]
    BY <1>1, <1>4, <1>5 DEF KeepResult
  <1>7. results' \in [Sessions -> Seq(Requests)] /\ results'[s] = new
        /\ \A q \in Sessions : q # s => results'[q] = results[q]
    BY <1>6 DEF TypeOK
  <1>8. \A i \in DOMAIN new : Decided(s, new[i])
    BY <1>3, <1>4, <1>5 DEF ResultsDecided
  <1>9. Increasing(new)
    <2>1. \A i \in DOMAIN old : old[i] < Len(sent)
      <3>1. \A i \in DOMAIN old : old[i] \in 1 .. Len(sent) /\ old[i] # Len(sent)
        BY <1>4, SentAreRequests DEF ResultsDecided, Decided
      <3> QED BY <3>1, SentAreRequests
    <2>2. Increasing(old)
      BY <1>4 DEF ResultsDecided
    <2>3. ASSUME NEW i \in DOMAIN new, NEW j \in DOMAIN new, i < j PROVE new[i] < new[j]
      <3>1. i \in DOMAIN old
        BY <1>5, <2>3
      <3>2. CASE j \in DOMAIN old
        BY <1>5, <2>2, <2>3, <3>1, <3>2 DEF Increasing
      <3>3. CASE j \notin DOMAIN old
        <4>1. j = Len(new)
          BY <1>5, <3>3
        <4> QED BY <1>5, <2>1, <3>1, <4>1
      <3> QED BY <3>2, <3>3
    <2> QED BY <2>3 DEF Increasing
  <1>10. ResultsDecided'
    <2>2. \A q \in Sessions : passport'[q] = passport[q]
      BY DEF outputs
    <2>3. \A q \in Sessions : /\ \A i \in DOMAIN results'[q] : Decided(q, results'[q][i])
                             /\ Increasing(results'[q])
      BY <1>7, <1>8, <1>9 DEF ResultsDecided
    <2>4. \A q \in Sessions : /\ \A i \in DOMAIN passport'[q] : Decided(q, passport'[q][i])
                             /\ Increasing(passport'[q])
      BY <2>2 DEF ResultsDecided
    <2> HIDE DEF IInv
    <2> QED BY <2>3, <2>4 DEF ResultsDecided, Decided, gate
  <1>11. results'[callback.session] = new /\ results[callback.session] = old
    BY <1>1, <1>4, <1>7
  <1>12. \E i \in DOMAIN new : new[i] = Len(sent)
    BY <1>5
  <1> HIDE DEF IInv
  <1> QED BY <1>5, <1>7, <1>10, <1>11, <1>12

\* An approval is one file done.
LEMMA ApprovedIInv ==
  ASSUME IInv, Approved
  PROVE  IInv'
  <1> USE DEF IInv
  <1>1. /\ callback.phase = "wait" /\ KeepResult /\ reply[Len(sent)] \in {"admitted", "refused"}
        /\ UNCHANGED <<gate, sent, editor, outputs, faults>> /\ callback'.phase # "wait"
    BY DEF Approved, TypeOK
  <1>2. results' \in [Sessions -> Seq(Requests)] /\ ResultsDecided'
    BY <1>1, KeepResultOK
  <1>3. /\ callback.todo # {} /\ callback.todo \in SUBSET Names
        /\ callback.todo \subseteq callback.listed /\ rendering = NoSession
        /\ callback.session \in Sessions
    BY <1>1 DEF CallbackOK, TypeOK, Budget, Returned
  <1>4. NextFile \in callback.todo
    BY <1>3, NextFileToDo
  <1>5. /\ callback' \in [phase : {"returned", "submit", "wait", "passport"},
                        session : Sessions \cup {NoSession},
                        listed : SUBSET Names, todo : SUBSET Names]
        /\ callback'.phase = "submit" /\ callback'.session = callback.session
        /\ callback'.todo = callback.todo \ {NextFile} /\ callback'.listed = callback.listed
    BY <1>3 DEF Approved, TypeOK
  <1>6. TypeOK'
    BY <1>1, <1>2, <1>3, <1>5 DEF gate, editor, outputs, TypeOK
  <1>7. Budget'
    <2>1. /\ Cardinality(callback'.todo) = Cardinality(callback.todo) - 1
          /\ Cardinality(callback.todo) \in Nat
      BY <1>3, <1>4, <1>5, NameSets, FS_RemoveElement
    <2>2. rendering' = NoSession /\ sent' = sent /\ takes' = takes /\ Waiting = 1 /\ Waiting' = 0
      BY <1>1, <1>3, <1>5 DEF editor, Waiting
    <2> QED BY <2>1, <2>2, SentAreRequests DEF Budget
  <1>8. CallbackOK' /\ GateTruth'
    BY <1>1, <1>3, <1>5 DEF gate, editor, CallbackOK, GateTruth
  <1> QED BY <1>2, <1>6, <1>7, <1>8

\* However the hook ends, it leaves no file to submit.
LEMMA ReturnedIInv ==
  ASSUME IInv, callback' = Returned, UNCHANGED <<gate, sent, takes, disk, changed, begun, manifest>>,
         bound' \in {bound, {}}, active' \in {active, NoSession},
         rendering' = NoSession,
         faults' \in 0 .. MaxFaults,
         results' \in [Sessions -> Seq(Requests)], passport' \in [Sessions -> Seq(Requests)],
         ResultsDecided'
  PROVE  IInv'
  <1> USE DEF IInv
  <1>1. /\ callback' \in [phase : {"returned", "submit", "wait", "passport"},
                        session : Sessions \cup {NoSession},
                        listed : SUBSET Names, todo : SUBSET Names]
        /\ callback'.phase = "returned" /\ callback'.todo = {} /\ callback'.listed = {}
    BY DEF Returned
  <1>2. TypeOK'
    BY <1>1 DEF gate, TypeOK
  <1>3. Budget'
    <2>1. Cardinality({}) = 0 /\ Len(sent) \in Nat /\ Len(sent) <= takes * Cardinality(Names)
      BY FS_EmptySet, SentAreRequests DEF TypeOK
    <2> QED BY <2>1, <1>1 DEF Budget, Waiting
  <1>4. CallbackOK' /\ GateTruth'
    BY <1>1 DEF gate, CallbackOK, GateTruth
  <1> QED BY <1>2, <1>3, <1>4

\* The hook's other steps.
LEMMA HookIInv ==
  ASSUME IInv, Hook
  PROVE  IInv'
  <1> USE DEF IInv
  <1>a. ASSUME UNCHANGED <<gate, sent, results, passport>>, callback'.phase # "wait"
        PROVE  ResultsDecided'
    BY <1>a DEF gate, ResultsDecided, Decided, Increasing
  <1>b. /\ faults \in 0 .. MaxFaults
        /\ results \in [Sessions -> Seq(Requests)] /\ passport \in [Sessions -> Seq(Requests)]
    BY DEF TypeOK
  <1>c. callback.phase # "returned" => rendering = NoSession
    BY DEF Budget, Returned
  <1>1. CASE Submit
    BY <1>1, SubmitIInv
  <1>2. CASE Approved
    BY <1>2, ApprovedIInv
  <1>3. CASE Rejected
    <2>1. /\ callback.phase = "wait" /\ KeepResult /\ reply[Len(sent)] \in {"admitted", "refused"}
          /\ UNCHANGED <<gate, sent, editor, outputs, faults>>
          /\ callback' = Returned /\ callback'.phase # "wait"
      BY <1>3 DEF Rejected, Returned
    <2>2. results' \in [Sessions -> Seq(Requests)] /\ ResultsDecided'
      BY <2>1, KeepResultOK
    <2> QED BY <1>b, <1>c, <2>1, <2>2, ReturnedIInv DEF editor, outputs
  <1>4. CASE CommunicationError \/ FileGone
    <2>1. /\ callback.phase # "returned" /\ callback' = Returned /\ callback'.phase # "wait"
          /\ UNCHANGED <<gate, sent, editor, results, outputs, faults>>
      BY <1>4 DEF CommunicationError, FileGone, Returned
    <2> QED BY <1>a, <1>b, <1>c, <2>1, ReturnedIInv DEF editor, outputs
  <1>5. CASE WriteManifest
    <2>1. /\ callback.phase = "submit" /\ callback.todo = {}
          /\ callback.session \in Sessions /\ callback.listed \subseteq Names
          /\ manifest' = [manifest EXCEPT ![callback.session] = [n \in callback.listed |-> disk[n]]]
          /\ UNCHANGED <<gate, editor, sent, results, passport, faults>>
      BY <1>5 DEF WriteManifest, CallbackOK, TypeOK
    <2>2. /\ callback' \in [phase : {"returned", "submit", "wait", "passport"},
                           session : Sessions \cup {NoSession},
                           listed : SUBSET Names, todo : SUBSET Names]
          /\ callback'.phase = "passport" /\ callback'.session = callback.session
          /\ callback'.todo = callback.todo /\ callback'.listed = callback.listed
      BY <1>5 DEF WriteManifest, TypeOK
    <2>3. DOMAIN manifest' = Sessions /\ \A s \in Sessions : DOMAIN manifest'[s] \subseteq Names
      BY <2>1 DEF TypeOK
    <2>4. TypeOK'
      BY <2>1, <2>2, <2>3 DEF gate, editor, TypeOK
    <2>5. Budget'
      BY <1>c, <2>1, <2>2 DEF editor, Budget, Waiting
    <2>6. CallbackOK' /\ GateTruth'
      BY <2>1, <2>2 DEF gate, editor, CallbackOK, GateTruth
    <2> QED BY <1>a, <2>1, <2>2, <2>4, <2>5, <2>6
  <1>6. CASE ProducePassport
    <2>1. /\ callback.phase = "passport" /\ callback.session \in Sessions
          /\ passport' = [passport EXCEPT ![callback.session] = results[callback.session]]
          /\ callback' = Returned /\ callback'.phase # "wait"
          /\ UNCHANGED <<gate, sent, editor, results, manifest, faults>>
      BY <1>6 DEF ProducePassport, CallbackOK, Returned
    <2>2. passport' \in [Sessions -> Seq(Requests)]
      BY <1>b, <2>1
    <2>3. ResultsDecided'
      <3>1. \A q \in Sessions : passport'[q] \in {passport[q], results[q]}
        BY <1>b, <2>1
      <3> QED BY <2>1, <3>1 DEF gate, ResultsDecided, Decided, Increasing
    <2> QED BY <1>b, <1>c, <2>1, <2>2, <2>3, ReturnedIInv DEF editor
  <1> QED BY <1>1, <1>2, <1>3, <1>4, <1>5, <1>6 DEF Hook

\* Neither an exception nor the editor's death loses what was decided.
LEMMA FaultIInv ==
  ASSUME IInv, Raises \/ EditorDies
  PROVE  IInv'
  <1>1. /\ faults < MaxFaults /\ faults' = faults + 1 /\ callback' = Returned
        /\ UNCHANGED <<gate, sent, begun, takes, disk, changed, results, outputs>>
        /\ \/ Raises /\ UNCHANGED <<bound, active, rendering>>
           \/ bound' = {} /\ active' = NoSession /\ rendering' = NoSession
    BY DEF Raises, EditorDies, editor
  <1>2. /\ faults' \in 0 .. MaxFaults
        /\ results' \in [Sessions -> Seq(Requests)] /\ passport' \in [Sessions -> Seq(Requests)]
    BY <1>1, CertificationAssumption DEF CertificationAssumption, IInv, TypeOK, outputs
  <1>3. ResultsDecided'
    BY <1>1 DEF IInv, gate, outputs, ResultsDecided, Decided, Increasing, Returned
  <1>4. rendering' = NoSession
    BY <1>1 DEF IInv, Budget, Raises, Returned
  <1> QED BY <1>1, <1>2, <1>3, <1>4, ReturnedIInv DEF outputs

\* Another program leaves the hook where it is, and marks what it changed.
LEMMA IntrudeIInv ==
  ASSUME IInv, NEW n \in Names, Intrude(n)
  PROVE  IInv'
  <1> USE DEF IInv
  <1>1. /\ UNCHANGED <<gate, sent, begun, active, bound, rendering, takes, results, callback, outputs>>
        /\ faults < MaxFaults /\ faults' = faults + 1
        /\ changed' = changed \cup ({n} \cap Submitted)
    BY DEF Intrude
  <1>2. PICK f \in {NoFrame, Foreign} : disk' = [disk EXCEPT ![n] = f]
    BY DEF Intrude
  <1>3. f \in Frames \cup {NoFrame}
    BY <1>2 DEF Frames
  <1>4. faults' \in 0 .. MaxFaults
    BY <1>1, CertificationAssumption DEF CertificationAssumption, TypeOK
  <1>5. TypeOK'
    BY <1>1, <1>2, <1>3, <1>4 DEF gate, outputs, TypeOK
  <1>6. Budget'
    BY <1>1 DEF Budget, Waiting
  <1>7. CallbackOK'
    <2>1. NextFile' = NextFile /\ changed \subseteq changed'
      BY <1>1 DEF NextFile
    <2>2. ASSUME callback.phase = "wait"
          PROVE  NextFile \in changed' \/ disk'[NextFile] = disk[NextFile]
      <3>1. CASE NextFile = n
        BY <1>1, <2>2, <3>1 DEF Submitted
      <3>2. CASE NextFile # n
        BY <1>2, <3>2 DEF TypeOK
      <3> QED BY <3>1, <3>2
    <2> QED BY <1>1, <2>1, <2>2 DEF CallbackOK
  <1>8. ResultsDecided' /\ GateTruth'
    BY <1>1 DEF gate, outputs, ResultsDecided, Decided, Increasing, GateTruth
  <1> QED BY <1>5, <1>6, <1>7, <1>8

\* The gate never takes a record back, nor a verdict.
LEMMA GateSteps ==
  ASSUME TypeOK, GateTruth, NEW r \in DOMAIN sent, GateStep(r)
  PROVE  /\ judged' \in [Requests -> {"no", "psi0", "psi1"}]
         /\ registered' \subseteq Requests /\ registered \subseteq registered'
         /\ reply' \in [Requests -> Gate!Replies]
         /\ \A q \in Requests : reply[q] # "none" => reply'[q] = reply[q]
         /\ GateTruth'
         /\ UNCHANGED <<sent, editor, results, callback, outputs, faults>>
  <1>1. /\ r \in Requests
        /\ judged \in [Requests -> {"no", "psi0", "psi1"}]
        /\ registered \subseteq Requests
        /\ reply \in [Requests -> Gate!Replies]
    BY SentAreRequests DEF TypeOK
  <1>2. CASE Judge(r)
    BY <1>1, <1>2 DEF GateStep, Judge, Gate!Judge, GateTruth
  <1>3. CASE Gate!Register(r)
    BY <1>1, <1>3 DEF GateStep, Gate!Register, GateTruth
  <1>4. CASE Answer(r)
    BY <1>1, <1>4 DEF GateStep, Answer, Gate!Answer, Gate!Replies, GateTruth
  <1>5. CASE GiveUp(r)
    BY <1>1, <1>5 DEF GateStep, GiveUp, Gate!Abandon, Gate!Replies, GateTruth
  <1>6. UNCHANGED <<sent, editor, results, callback, outputs, faults>>
    BY DEF GateStep
  <1> QED BY <1>2, <1>3, <1>4, <1>5, <1>6 DEF GateStep

LEMMA GateIInv ==
  ASSUME IInv, NEW r \in DOMAIN sent, GateStep(r)
  PROVE  IInv'
  <1> USE DEF IInv
  <1>1. /\ judged' \in [Requests -> {"no", "psi0", "psi1"}]
        /\ registered' \subseteq Requests /\ registered \subseteq registered'
        /\ reply' \in [Requests -> Gate!Replies]
        /\ \A q \in Requests : reply[q] # "none" => reply'[q] = reply[q]
        /\ GateTruth'
        /\ UNCHANGED <<sent, editor, results, callback, outputs, faults>>
    BY GateSteps
  <1>2. TypeOK'
    BY <1>1 DEF editor, outputs, TypeOK
  <1>3. Budget' /\ CallbackOK'
    BY <1>1 DEF editor, Budget, Waiting, CallbackOK, NextFile
  <1>4. \A s, q : Decided(s, q) => Decided(s, q)'
    BY <1>1, SentAreRequests DEF Decided
  <1>5. ResultsDecided'
    BY <1>1, <1>4 DEF outputs, ResultsDecided, Increasing
  <1> QED BY <1>1, <1>2, <1>3, <1>5

LEMMA NextIInv == IInv /\ [Next]_vars => IInv'
  <1> SUFFICES ASSUME IInv, [Next]_vars PROVE IInv'
    OBVIOUS
  <1>1. CASE Operator
    BY <1>1, OperatorIInv
  <1>2. CASE Hook
    BY <1>2, HookIInv
  <1>3. CASE Raises \/ EditorDies
    BY <1>3, FaultIInv
  <1>6. CASE \E n \in Names : Intrude(n)
    BY <1>6, IntrudeIInv
  <1>4. CASE \E r \in DOMAIN sent : GateStep(r)
    BY <1>4, GateIInv
  <1>5. CASE UNCHANGED vars
    BY <1>5 DEF vars, gate, editor, outputs, IInv, TypeOK, Budget, Waiting, CallbackOK,
                NextFile, ResultsDecided, Decided, Increasing, GateTruth
  <1> QED BY <1>1, <1>2, <1>3, <1>4, <1>5, <1>6 DEF Next, Fault

THEOREM Invariance == Spec => []IInv
  BY InitIInv, NextIInv, PTL DEF Spec

-----------------------------------------------------------------------------
(* What certification guarantees, for every instance *)

\* The hook's variables keep their types: in particular no file is submitted
\* twice in a take, or there would be more submissions than the takes pay for.
THEOREM TypeCorrect == Spec => []TypeOK
  <1>1. IInv => TypeOK
    BY DEF IInv
  <1> QED BY <1>1, Invariance, PTL

\* Each entry of a passport was submitted by its own session and decided by the
\* gate, is in the ledger exactly if it was approved, and is listed once:
\* whatever on_mrq_finished_callback left in frame_results when it was aborted,
\* rebound, or when its editor died.
THEOREM PassportsTellTheTruth == Spec => []PassportTellsTruth
  <1>1. IInv => PassportTellsTruth
    <2> SUFFICES ASSUME IInv, NEW s \in Sessions, NEW p, p = passport[s]
                 PROVE  /\ \A i \in DOMAIN p :
                             /\ p[i] \in DOMAIN sent /\ sent[p[i]].session = s
                             /\ reply[p[i]] \in {"admitted", "refused"}
                             /\ reply[p[i]] = "admitted" <=> p[i] \in registered
                        /\ \A i, j \in DOMAIN p : i < j => p[i] < p[j]
      BY DEF PassportTellsTruth
    <2>1. /\ \A i \in DOMAIN p : Decided(s, p[i])
          /\ Increasing(p)
      BY DEF IInv, ResultsDecided
    <2>2. \A r \in Requests : reply[r] = "refused" => r \notin registered
      BY DEF IInv, GateTruth
    <2>3. \A i \in DOMAIN p : p[i] \in Requests
      BY <2>1, SentAreRequests DEF IInv, Decided
    <2> QED BY <2>1, <2>2, <2>3 DEF IInv, GateTruth, Decided, Increasing
  <1> QED BY <1>1, Invariance, PTL

-----------------------------------------------------------------------------
(* A passport covers its take *)

\* The files of the take the hook has an approval for, and their submissions:
\* nobody else submits meanwhile, so they are the last ones.
Done      == callback.listed \ callback.todo
Finished  == Len(sent) - Waiting
Approvals == (Finished - Cardinality(Done)) + 1 .. Finished

\* What the manifest has of a file, or would have now.
Hashed(n) == IF callback.phase = "passport" THEN manifest[callback.session][n] ELSE disk[n]

\* The approvals are one for each file, in the ledger and among the results, and
\* of the bytes the manifest has, but for the files another program changed.
TakeCovered ==
  callback.phase # "returned" =>
    /\ {sent[r].name : r \in Approvals} = Done
    /\ \A r \in Approvals :
         /\ r \in DOMAIN sent /\ r \in registered
         /\ \E i \in DOMAIN results[callback.session] : results[callback.session][i] = r
         /\ sent[r].name \in changed \/ sent[r].frame = Hashed(sent[r].name)
    /\ callback.phase = "passport" => DOMAIN manifest[callback.session] = callback.listed

\* What does not touch the hook or the directory leaves the take covered.
LEMMA SameTake ==
  ASSUME IInv, TakeCovered, UNCHANGED <<sent, editor, callback, results, manifest>>,
         registered \subseteq registered'
  PROVE  TakeCovered'
  <1>1. Approvals' = Approvals /\ Done' = Done
    BY DEF Approvals, Done, Finished, Waiting
  <1>2. \A n : Hashed(n)' = Hashed(n)
    BY DEF Hashed, editor
  <1> QED BY <1>1, <1>2 DEF TakeCovered, editor

\* The listing starts with nothing approved.
LEMMA FinishRenderCovers ==
  ASSUME IInv, NEW written \in SUBSET Names, FinishRender(written)
  PROVE  TakeCovered'
  <1>1. CASE callback' = Returned
    BY <1>1 DEF TakeCovered, Returned
  <1>2. CASE callback' # Returned
    <2>1. PICK listed : callback' = [phase |-> "submit", session |-> active,
                                     listed |-> listed, todo |-> listed]
      BY <1>2 DEF FinishRender
    <2>2. Done' = {} /\ Waiting' = 0 /\ sent' = sent /\ callback'.phase = "submit"
      BY <2>1 DEF Done, Waiting, FinishRender
    <2>3. Finished' \in Int /\ Cardinality(Done') = 0
      BY <2>2, FS_EmptySet, SentAreRequests DEF Finished, IInv
    <2>4. Approvals' = {}
      <3>1. PICK f \in Int : f = Finished'
        BY <2>3
      <3>2. Approvals' = (f - 0) + 1 .. f
        BY <2>3, <3>1 DEF Approvals
      <3> QED BY <3>2
    <2> QED BY <2>2, <2>4 DEF TakeCovered
  <1> QED BY <1>1, <1>2

\* A submission under way is not yet an approval.
LEMMA SubmitCovers ==
  ASSUME IInv, TakeCovered, Submit
  PROVE  TakeCovered'
  <1> USE DEF IInv
  <1>1. /\ callback.phase = "submit" /\ callback.session \in Sessions
        /\ callback.todo # {} /\ callback.todo \in SUBSET Names
    BY DEF Submit, CallbackOK, TypeOK
  <1>2. NextFile \in callback.todo /\ NextFile \in Names /\ disk[NextFile] \in Frames
    BY <1>1, NextFileToDo DEF Submit, TypeOK
  <1>3. PICK x \in [session : Sessions, name : Names, frame : Frames] :
          sent' = Append(sent, x)
    BY <1>1, <1>2 DEF Submit
  <1>4. sent \in Seq([session : Sessions, name : Names, frame : Frames])
    BY DEF TypeOK
  <1>5. /\ Len(sent') = Len(sent) + 1 /\ Len(sent) \in Nat
        /\ \A r \in DOMAIN sent : r \in DOMAIN sent' /\ sent'[r] = sent[r]
    BY <1>3, <1>4, SentAreRequests
  <1>6. /\ callback'.phase = "wait" /\ callback'.session = callback.session
        /\ callback'.todo = callback.todo /\ callback'.listed = callback.listed
        /\ UNCHANGED <<gate, editor, results>>
    BY DEF Submit, TypeOK
  <1>7. Done' = Done /\ Finished' = Finished /\ Approvals' = Approvals
    BY <1>1, <1>5, <1>6 DEF Done, Finished, Waiting, Approvals
  <1>8. {sent'[r].name : r \in Approvals} = {sent[r].name : r \in Approvals}
    BY <1>1, <1>5 DEF TakeCovered
  <1>9. \A n : Hashed(n)' = Hashed(n)
    BY <1>1, <1>6 DEF Hashed, editor
  <1>10. \A r \in Approvals :
           /\ r \in DOMAIN sent' /\ r \in registered' /\ sent'[r] = sent[r]
           /\ \E i \in DOMAIN results'[callback'.session] : results'[callback'.session][i] = r
    BY <1>1, <1>5, <1>6 DEF TakeCovered, gate
  <1>11. \A r \in Approvals :
           sent'[r].name \in changed' \/ sent'[r].frame = Hashed(sent[r].name)'
    BY <1>1, <1>6, <1>9, <1>10 DEF TakeCovered, editor
  <1> QED BY <1>1, <1>6, <1>7, <1>8, <1>10, <1>11 DEF TakeCovered

\* The answer makes it one: one file more is done.
LEMMA ApprovedCovers ==
  ASSUME IInv, TakeCovered, Approved
  PROVE  TakeCovered'
  <1> USE DEF IInv
  <1>1. /\ callback.phase = "wait" /\ KeepResult /\ reply[Len(sent)] = "admitted"
        /\ UNCHANGED <<gate, sent, editor, outputs, faults>>
        /\ callback.todo # {} /\ callback.todo \in SUBSET Names
        /\ callback.listed \in SUBSET Names /\ callback.todo \subseteq callback.listed
        /\ callback.session \in Sessions
    BY DEF Approved, CallbackOK, TypeOK
  <1>2. NextFile \in callback.todo
    BY <1>1, NextFileToDo
  <1>3. /\ callback'.phase = "submit" /\ callback'.session = callback.session
        /\ callback'.todo = callback.todo \ {NextFile} /\ callback'.listed = callback.listed
    BY DEF Approved, TypeOK
  <1>4. PICK n \in Names : n = NextFile
    BY <1>1, <1>2
  <1>5. PICK old \in SUBSET Names : old = Done
    BY <1>1 DEF Done
  <1>6. Done' = old \cup {n} /\ n \notin old
    BY <1>1, <1>2, <1>3, <1>4, <1>5 DEF Done
  <1>7. /\ Cardinality(Done') = Cardinality(old) + 1 /\ Cardinality(old) \in Nat
        /\ Len(sent) \in Nat /\ DOMAIN sent = 1 .. Len(sent) /\ DOMAIN sent \subseteq Requests
    BY <1>5, <1>6, NameSets, FS_AddElement, SentAreRequests
  <1>8. Finished = Len(sent) - 1 /\ Finished' = Len(sent)
    BY <1>1, <1>3, <1>7 DEF Finished, Waiting
  <1>9. Approvals' = Approvals \cup {Len(sent)}
    BY <1>5, <1>7, <1>8 DEF Approvals
  <1>10. /\ sent[Len(sent)].name = n
         /\ n \in changed \/ sent[Len(sent)].frame = disk[n]
         /\ Len(sent) \in DOMAIN sent /\ Len(sent) \in registered
    BY <1>1, <1>4, <1>7 DEF CallbackOK, GateTruth
  <1>11. {sent'[r].name : r \in Approvals \cup {Len(sent)}} = {sent[r].name : r \in Approvals} \cup {n}
    BY <1>1, <1>10
  <1>12. \A m : Hashed(m) = disk[m] /\ Hashed(m)' = disk[m]
    BY <1>1, <1>3 DEF Hashed, editor
  <1>13. {sent[r].name : r \in Approvals} = old
    BY <1>1, <1>5 DEF TakeCovered
  <1>14. \A r \in Approvals \cup {Len(sent)} :
           /\ r \in DOMAIN sent' /\ r \in registered'
           /\ \E i \in DOMAIN results'[callback'.session] : results'[callback'.session][i] = r
    <2>1. /\ \E i \in DOMAIN results'[callback.session] :
               results'[callback.session][i] = Len(sent)
          /\ \A i \in DOMAIN results[callback.session] :
               /\ i \in DOMAIN results'[callback.session]
               /\ results'[callback.session][i] = results[callback.session][i]
      BY <1>1, <1>3, KeepResultOK
    <2>2. sent' = sent /\ registered' = registered /\ callback'.session = callback.session
      BY <1>1, <1>3 DEF gate
    <2>3. \A r \in Approvals :
            /\ r \in DOMAIN sent /\ r \in registered
            /\ \E i \in DOMAIN results[callback.session] : results[callback.session][i] = r
      BY <1>1 DEF TakeCovered
    <2>4. \A r \in Approvals :
            \E i \in DOMAIN results'[callback.session] : results'[callback.session][i] = r
      BY <2>1, <2>3
    <2> QED BY <1>10, <2>1, <2>2, <2>3, <2>4
  <1>15. {sent'[r].name : r \in Approvals'} = Done'
    BY <1>6, <1>9, <1>11, <1>13
  <1>16. \A r \in Approvals \cup {Len(sent)} :
           sent[r].name \in changed \/ sent[r].frame = disk[sent[r].name]
    BY <1>1, <1>10, <1>12 DEF TakeCovered
  <1>17. \A r \in Approvals' :
           sent'[r].name \in changed' \/ sent'[r].frame = Hashed(sent[r].name)'
    BY <1>1, <1>9, <1>12, <1>16 DEF editor
  <1> QED BY <1>3, <1>9, <1>14, <1>15, <1>17 DEF TakeCovered

\* build_manifest reads the files the frames were read from.
LEMMA WriteManifestCovers ==
  ASSUME IInv, TakeCovered, WriteManifest
  PROVE  TakeCovered'
  <1>1. /\ callback.phase = "submit" /\ callback.session \in Sessions
        /\ callback'.phase = "passport" /\ callback'.session = callback.session
        /\ callback'.todo = callback.todo /\ callback'.listed = callback.listed
        /\ UNCHANGED <<gate, editor, sent, results>>
        /\ manifest' = [manifest EXCEPT ![callback.session] = [n \in callback.listed |-> disk[n]]]
        /\ DOMAIN manifest = Sessions
    BY DEF WriteManifest, IInv, CallbackOK, TypeOK
  <1>2. Done' = Done /\ Approvals' = Approvals
    BY <1>1 DEF Done, Finished, Waiting, Approvals
  <1>3. manifest'[callback.session] = [n \in callback.listed |-> disk[n]]
    BY <1>1
  <1>4. \A n \in callback.listed : Hashed(n)' = Hashed(n)
    BY <1>1, <1>3 DEF Hashed
  <1>5. \A r \in Approvals : sent[r].name \in callback.listed
    BY <1>1 DEF TakeCovered, Done
  <1>6. \A r \in Approvals :
          sent'[r].name \in changed' \/ sent'[r].frame = Hashed(sent[r].name)'
    BY <1>1, <1>4, <1>5 DEF TakeCovered, editor
  <1> QED BY <1>1, <1>2, <1>3, <1>6 DEF TakeCovered, gate

\* Another program changes the bytes of one file, which is then marked.
LEMMA IntrudeCovers ==
  ASSUME IInv, TakeCovered, NEW n \in Names, Intrude(n)
  PROVE  TakeCovered'
  <1>1. /\ UNCHANGED <<gate, sent, results, callback, manifest>>
        /\ changed' = changed \cup ({n} \cap Submitted)
        /\ \A m \in Names : m # n => disk'[m] = disk[m]
    BY DEF Intrude, outputs, IInv, TypeOK
  <1>2. Done' = Done /\ Approvals' = Approvals /\ Done \subseteq Names
    BY <1>1 DEF Done, Finished, Waiting, Approvals, IInv, TypeOK
  <1>3. ASSUME NEW r \in Approvals, callback.phase # "returned"
        PROVE  sent[r].name \in changed' \/ sent[r].frame = Hashed(sent[r].name)'
    <2>1. /\ sent[r].name \in Done
          /\ sent[r].name \in changed \/ sent[r].frame = Hashed(sent[r].name)
      BY <1>3 DEF TakeCovered
    <2>2. CASE callback.phase = "passport"
      BY <1>1, <2>1, <2>2 DEF Hashed
    <2>3. CASE callback.phase \in {"submit", "wait"}
      <3>1. sent[r].name \in Submitted /\ sent[r].name \in Names
        BY <1>2, <2>1, <2>3 DEF Submitted, Done
      <3>2. CASE sent[r].name = n
        BY <1>1, <3>1, <3>2
      <3>3. CASE sent[r].name # n
        BY <1>1, <2>1, <2>3, <3>1, <3>3 DEF Hashed
      <3> QED BY <3>2, <3>3
    <2> QED BY <1>3, <2>2, <2>3 DEF IInv, TypeOK
  <1> QED BY <1>1, <1>2, <1>3 DEF TakeCovered, gate

LEMMA NextCovers == IInv /\ TakeCovered /\ [Next]_vars => TakeCovered'
  <1> SUFFICES ASSUME IInv, TakeCovered, [Next]_vars PROVE TakeCovered'
    OBVIOUS
  <1>0. ASSUME callback' = Returned PROVE TakeCovered'
    BY <1>0 DEF TakeCovered, Returned
  <1>1. ASSUME NEW s \in Sessions, BeginSession(s) \/ BindExecutor(s) \/ StartRender(s)
        PROVE  TakeCovered'
    <2>1. callback' = callback /\ callback.phase = "returned"
      BY <1>1 DEF BeginSession, BindExecutor, StartRender, GameThreadFree
    <2> QED BY <2>1 DEF TakeCovered
  <1>2. ASSUME NEW written \in SUBSET Names, FinishRender(written) PROVE TakeCovered'
    BY <1>2, FinishRenderCovers
  <1>3. CASE Hook
    <2>1. CASE FileGone \/ Rejected \/ CommunicationError \/ ProducePassport
      BY <1>0, <2>1 DEF FileGone, Rejected, CommunicationError, ProducePassport
    <2> QED BY <1>3, <2>1, SubmitCovers, ApprovedCovers, WriteManifestCovers DEF Hook
  <1>4. CASE Raises \/ EditorDies
    BY <1>0, <1>4 DEF Raises, EditorDies
  <1>7. CASE \E n \in Names : Intrude(n)
    BY <1>7, IntrudeCovers
  <1>5. ASSUME NEW r \in DOMAIN sent, GateStep(r) PROVE TakeCovered'
    <2>1. registered \subseteq registered' /\ UNCHANGED <<sent, editor, results, callback, outputs>>
      BY <1>5, GateSteps DEF IInv
    <2> QED BY <2>1, SameTake DEF outputs
  <1>6. CASE UNCHANGED vars
    <2>1. registered' = registered /\ UNCHANGED <<sent, editor, callback, results, manifest>>
      BY <1>6 DEF vars, gate, outputs
    <2> QED BY <2>1, SameTake
  <1> QED BY <1>1, <1>2, <1>3, <1>4, <1>5, <1>6, <1>7 DEF Next, Fault, Operator

\* Only produce_passport writes a passport, and what it writes covers the take.
LEMMA PassportStep ==
  ASSUME IInv, TakeCovered, [Next]_vars, passport' # passport
  PROVE  TakeStep
  <1> USE DEF IInv
  <1>1. ProducePassport
    BY GateSteps DEF Next, Operator, BeginSession, BindExecutor, StartRender, FinishRender, Hook,
       Submit, FileGone, Approved, Rejected, CommunicationError, WriteManifest, Fault, Raises,
       Intrude, EditorDies, vars, outputs
  <1>2. PICK s \in Sessions : s = callback.session
    BY <1>1 DEF ProducePassport, CallbackOK
  <1>3. /\ callback.phase = "passport" /\ callback.todo = {}
        /\ passport' = [passport EXCEPT ![s] = results[s]]
        /\ passport \in [Sessions -> Seq(Requests)]
        /\ callback.listed \in SUBSET Names
    BY <1>1, <1>2 DEF ProducePassport, CallbackOK, TypeOK
  <1>4. passport'[s] = results[s] /\ \A q \in Sessions : q # s => passport'[q] = passport[q]
    BY <1>3
  <1>5. PICK listed \in SUBSET Names : listed = callback.listed
    BY <1>3
  <1>6. /\ DOMAIN manifest[s] = listed /\ \A n : Hashed(n) = manifest[s][n]
        /\ Done = listed /\ Finished = Len(sent)
    BY <1>2, <1>3, <1>5, SentAreRequests DEF TakeCovered, Hashed, Done, Finished, Waiting
  <1>7. /\ Cardinality(listed) \in Nat /\ Len(sent) \in Nat /\ DOMAIN sent = 1 .. Len(sent)
        /\ Approvals = (Len(sent) - Cardinality(listed)) + 1 .. Len(sent)
    BY <1>6, NameSets, SentAreRequests DEF Approvals
  <1>8. PICK new : new = {r \in {passport'[s][i] : i \in DOMAIN passport'[s]} :
                            r > Len(sent) - Cardinality(listed)}
    OBVIOUS
  <1>9. new = Approvals
    <2>1. \A i \in DOMAIN results[s] : results[s][i] \in 1 .. Len(sent)
      BY <1>7 DEF ResultsDecided, Decided
    <2>2. \A r \in Approvals : \E i \in DOMAIN results[s] : results[s][i] = r
      BY <1>2, <1>3 DEF TakeCovered
    <2>3. \A r \in 1 .. Len(sent) : r > Len(sent) - Cardinality(listed) <=> r \in Approvals
      BY <1>7
    <2>4. \A r \in Approvals : r > Len(sent) - Cardinality(listed)
      BY <1>7
    <2> QED BY <1>4, <1>8, <2>1, <2>2, <2>3, <2>4
  <1>10. new \subseteq registered
    BY <1>3, <1>9 DEF TakeCovered
  <1>11. /\ {sent[r].name : r \in new} = listed
         /\ \A r \in new : sent[r].name \in changed \/ sent[r].frame = manifest[s][sent[r].name]
    BY <1>3, <1>6, <1>9 DEF TakeCovered
  <1>12. \A q \in Sessions : passport'[q] # passport[q] => q = s
    BY <1>4
  <1> QED BY <1>6, <1>8, <1>10, <1>11, <1>12 DEF TakeStep

\* produce_passport certifies the take as the manifest has it: every file that
\* on_mrq_finished_callback listed was approved in this take, recorded, and has
\* in the manifest the bytes that were submitted, unless another program changed
\* it between the two readings.
THEOREM PassportsCoverTheirTake == Spec => PassportCoversTake
  <1>1. Init => TakeCovered
    BY DEF Init, Returned, TakeCovered
  <1>2. IInv /\ TakeCovered /\ [Next]_vars => [TakeStep]_passport
    BY PassportStep
  <1> QED BY <1>1, <1>2, NextCovers, Invariance, PTL DEF Spec, PassportCoversTake

=============================================================================
