---------------------------- MODULE AgentsProofs ----------------------------
(***************************************************************************)
(* Proofs about Agents, for any number of processes, artifacts, calls and  *)
(* crashes.                                                                *)
(*                                                                         *)
(* The argument: a record carries the number of the call that writes it,   *)
(* and no two calls have one number, so a record has one writer and is     *)
(* named once (Traced); what a call has found so far is accounted for by   *)
(* what it has looked at and what it saw there (LoopInv).                  *)
(***************************************************************************)
EXTENDS Agents, FiniteSetTheorems, TLAPS

-----------------------------------------------------------------------------
(* The invariant *)

Strong == {"supported", "partially_supported"}

\* A claim that rests on nothing, or on what was missing at some moment.
Weak(c, q) == q.ref \in c.absent \/ q.ref = None \/ ~ q.excerpt

\* A handler in its loop has asked about its whole list, and knows of what it
\* has looked at what it will claim of it.
LoopInv(c) ==
  /\ c.op \in {"evidence", "claims", "lineage"}
  /\ \A i \in DOMAIN c.todo : c.todo[i] \in c.asked
  /\ disk \cup {Root} \subseteq c.present /\ Refs \ disk \subseteq c.absent
  /\ c.op # "claims" => /\ \A q \in c.asked : q.ref \in Paths
                        /\ c.missing => \E q \in c.asked : q.ref \in c.absent
  /\ ~ (c.states \subseteq Strong) => \E q \in c.asked : Weak(c, q)
  /\ \A q \in c.asked :
       \/ \E i \in DOMAIN c.todo : c.todo[i] = q
       \/ /\ ~ c.missing => q.ref \in c.present
          /\ c.states \subseteq Strong => q.ref \in c.present /\ q.excerpt

Founded(c) ==
  c.op # "none" =>
    IF c.event.status = "success"
    THEN \A q \in c.asked : q.ref \in c.present /\ (c.op = "claims" => q.excerpt)
    ELSE \E q \in c.asked : q.ref \in c.absent \/ (c.op = "claims" /\ (q.ref = None \/ ~ q.excerpt))

CallInv(c) ==
  /\ c.stage = "checking" => LoopInv(c)
  /\ c.stage = "emitting" =>
       /\ c.event \in AuditEvents
       /\ c.event.output \in memory \cup {None}
       /\ Founded(c)

\* Numbers of calls, and of the records they write.
Numbered ==
  /\ \A f \in memory : f.id <= made
  /\ \A p \in Processes : calls[p].stage # "idle" => calls[p].id \in 1 .. made
  /\ \A p, q \in Processes : p # q /\ calls[p].stage # "idle" /\ calls[q].stage # "idle" =>
       calls[p].id # calls[q].id
  /\ \A p \in Processes : calls[p].stage = "checking" =>
       \A f \in memory : f.id # calls[p].id

Pending(f) == {p \in Processes : calls[p].stage = "emitting" /\ calls[p].event.output = f}
Logged(f)  == {i \in DOMAIN audit : audit[i].output = f}

\* A record is about to be named, or is named, once; an orphan never.
Traced(f) ==
  IF f \in orphans THEN Pending(f) = {} /\ Logged(f) = {}
  ELSE \/ Logged(f) = {} /\ \E p \in Processes : Pending(f) = {p}
       \/ Pending(f) = {} /\ \E i \in DOMAIN audit : Logged(f) = {i}

IInv ==
  /\ TypeOK
  /\ OutputsExist
  /\ \A p \in Processes : CallInv(calls[p])
  /\ Numbered
  /\ \A f \in memory : Traced(f)

-----------------------------------------------------------------------------
(* Lemmas *)

LEMMA NoneIsNoRecord == None \notin Files /\ None \notin Paths
  BY AgentsAssumption

\* What is under no file of memory is named nowhere.
LEMMA Untraced ==
  ASSUME IInv, NEW f \in Files, f \notin memory
  PROVE  Pending(f) = {} /\ Logged(f) = {} /\ f \notin orphans
  <1>1. Logged(f) = {}
    BY NoneIsNoRecord DEF IInv, OutputsExist, Named, Logged
  <1>2. Pending(f) = {}
    BY NoneIsNoRecord DEF IInv, CallInv, Pending
  <1> QED BY <1>1, <1>2 DEF IInv, TypeOK

\* Records and events only accumulate; what is true of a call because of them,
\* and of the artifacts, stays true.
LEMMA CallInvKept ==
  ASSUME NEW c \in Calls, CallInv(c), memory \subseteq memory',
         disk' = disk
  PROVE  CallInv(c)'
  BY DEF CallInv, LoopInv, Weak, Founded

LEMMA Constructed ==
  /\ Idle \in Calls
  /\ \A c \in Calls, e \in AuditEvents : Emitting(c, e) \in Calls
  /\ \A c \in Calls, n \in Ids : [c EXCEPT !.id = n] \in Calls
  <1>1. Idle \in Calls
    BY DEF Idle, Calls, Claims, Tasks
  <1>2. ASSUME NEW c \in Calls, NEW e \in AuditEvents PROVE Emitting(c, e) \in Calls
    BY DEF Emitting, Calls
  <1>3. ASSUME NEW c \in Calls, NEW n \in Ids PROVE [c EXCEPT !.id = n] \in Calls
    BY DEF Calls
  <1> QED BY <1>1, <1>2, <1>3

-----------------------------------------------------------------------------
(* The steps *)

\* A call begins, with the record it may already have written.
LEMMA StartStep ==
  ASSUME IInv, NEW p \in Processes, NEW call \in Calls, NEW out \in Files \cup {None},
         Start(p, call), memory' = memory \cup ({out} \ {None}),
         call.stage \in {"checking", "emitting"}, CallInv(call)',
         call.stage = "emitting" => call.event.output = out,
         out # None => out.id = made + 1 /\ call.stage = "emitting"
  PROVE  IInv'
  <1> PICK c \in Calls : c = [call EXCEPT !.id = made + 1]
    <2>1. made + 1 \in Ids
      BY AgentsAssumption DEF IInv, TypeOK, Start, Ids
    <2>2. [call EXCEPT !.id = made + 1] \in Calls
      BY <2>1, Constructed
    <2> QED BY <2>2
  <1>1. /\ c.stage = call.stage /\ c.event = call.event /\ c.id = made + 1
        /\ made \in Nat /\ made + 1 \in Ids
    BY AgentsAssumption DEF Calls, IInv, TypeOK, Start, Ids
  <1>2. /\ calls \in [Processes -> Calls] /\ calls' = [calls EXCEPT ![p] = c]
        /\ calls[p].stage = "idle" /\ made' = made + 1
        /\ UNCHANGED <<disk, audit, changes, crashes, orphans>>
    BY DEF Start, IInv, TypeOK
  <1>3. /\ calls' \in [Processes -> Calls] /\ calls'[p] = c
        /\ \A q \in Processes \ {p} : calls'[q] = calls[q]
    BY <1>2
  <1>4. TypeOK'
    <2>1. made' \in 0 .. MaxCalls
      BY <1>1, <1>2, AgentsAssumption DEF Ids
    <2> QED BY <1>2, <1>3, <2>1 DEF IInv, TypeOK
  <1>5. OutputsExist'
    BY <1>2 DEF IInv, OutputsExist, Named
  <1>7. ASSUME NEW q \in Processes PROVE CallInv(calls[q])'
    <2>1. CASE q = p
      <3>1. CallInv(c)'
        BY DEF CallInv, Calls, LoopInv, Weak, Founded
      <3> QED BY <2>1, <1>3, <3>1 DEF CallInv
    <2>2. CASE q # p
      <3>1. PICK d \in Calls : d = calls[q]
        BY <1>2
      <3>2. CallInv(d)'
        BY <1>2, <3>1, CallInvKept DEF IInv
      <3>3. calls'[q] = d
        BY <1>3, <2>2, <3>1
      <3> QED BY <3>2, <3>3 DEF CallInv
    <2> QED BY <2>1, <2>2
  <1>8. Numbered'
    <2>1. \A f \in memory' : f.id <= made + 1 /\ (f.id <= made \/ c.stage = "emitting")
      <3>1. \A f \in memory : f.id <= made /\ f.id \in Nat
        BY AgentsAssumption DEF IInv, TypeOK, Numbered, Files, Ids
      <3> QED BY <1>1, <3>1
    <2>2. \A q \in Processes : q # p /\ calls[q].stage # "idle" => calls[q].id \in 1 .. made
      BY DEF IInv, Numbered
    <2>3. \A q \in Processes : q # p /\ calls[q].stage = "checking" =>
            \A f \in memory' : f.id # calls[q].id
      BY <1>1, <2>2 DEF IInv, Numbered
    <2>4. c.stage = "checking" => \A f \in memory' : f.id # made + 1
      <3>1. \A f \in memory : f.id \in Nat
        BY AgentsAssumption DEF IInv, TypeOK, Files, Ids
      <3>2. c.stage = "checking" => memory' = memory
        BY <1>1
      <3> QED BY <1>1, <3>1, <3>2 DEF IInv, Numbered
    <2> QED BY <1>1, <1>2, <1>3, <2>1, <2>2, <2>3, <2>4 DEF IInv, Numbered
  <1>9. ASSUME NEW f \in memory' PROVE Traced(f)'
    <2>1. CASE f \in memory
      <3>1. f # out /\ f # None
        BY <1>1, <2>1, NoneIsNoRecord DEF IInv, TypeOK, Numbered
      <3>2. Pending(f)' = Pending(f)
        BY <1>1, <1>2, <1>3, <3>1 DEF Pending
      <3>3. Logged(f)' = Logged(f)
        BY <1>2 DEF Logged
      <3> QED BY <1>2, <2>1, <3>2, <3>3 DEF IInv, Traced
    <2>2. CASE f \notin memory
      <3>1. f = out /\ f # None /\ f \in Files
        BY <2>2
      <3>2. Pending(f) = {} /\ Logged(f) = {} /\ f \notin orphans
        BY <2>2, <3>1, Untraced
      <3>3. Pending(f)' = {p}
        BY <1>1, <1>3, <3>1, <3>2 DEF Pending
      <3>4. Logged(f)' = {}
        BY <1>2, <3>2 DEF Logged
      <3> QED BY <1>2, <3>2, <3>3, <3>4 DEF Traced
    <2> QED BY <2>1, <2>2
  <1> QED BY <1>4, <1>5, <1>7, <1>8, <1>9 DEF IInv

\* The event is in the log, and the call over.
LEMMA EmitStep ==
  ASSUME IInv, NEW p \in Processes, Emit(p)
  PROVE  IInv'
  <1> PICK c \in Calls : c = calls[p]
    BY DEF IInv, TypeOK
  <1> DEFINE n == Len(audit) + 1
  <1>1. /\ c.stage = "emitting" /\ audit' = Append(audit, c.event)
        /\ calls' = [calls EXCEPT ![p] = Idle]
        /\ UNCHANGED <<disk, memory, made, changes, crashes, orphans>>
    BY DEF Emit
  <1>2. /\ audit \in Seq(AuditEvents) /\ calls \in [Processes -> Calls] /\ memory \subseteq Files
        /\ Len(audit) \in Nat
    BY DEF IInv, TypeOK
  <1>3. c.event \in AuditEvents /\ c.event.output \in memory \cup {None}
    BY <1>1 DEF IInv, CallInv
  <1>4. /\ calls' \in [Processes -> Calls] /\ calls'[p] = Idle
        /\ \A q \in Processes \ {p} : calls'[q] = calls[q]
    BY <1>1, <1>2, Constructed
  <1>5. /\ audit' \in Seq(AuditEvents) /\ DOMAIN audit' = 1 .. n /\ DOMAIN audit = 1 .. Len(audit)
        /\ audit'[n] = c.event /\ \A i \in DOMAIN audit : audit'[i] = audit[i]
    BY <1>1, <1>2, <1>3
  <1> HIDE DEF n
  <1>6. DOMAIN audit' = DOMAIN audit \cup {n} /\ n \notin DOMAIN audit
        /\ \A i \in DOMAIN audit : i \in 1 .. n - 1
    BY <1>2, <1>5 DEF n
  <1>7. TypeOK'
    BY <1>1, <1>4, <1>5 DEF IInv, TypeOK
  <1>8. OutputsExist'
    BY <1>1, <1>3, <1>5, <1>6 DEF IInv, OutputsExist, Named
  <1>12. ASSUME NEW q \in Processes PROVE CallInv(calls[q])'
    <2>1. CASE q = p
      BY <2>1, <1>4 DEF CallInv, Idle
    <2>2. CASE q # p
      <3>1. PICK d \in Calls : d = calls[q]
        BY <1>2
      <3>2. CallInv(d)'
        BY <1>1, <3>1, CallInvKept DEF IInv
      <3>3. calls'[q] = d
        BY <1>4, <2>2, <3>1
      <3> QED BY <3>2, <3>3 DEF CallInv
    <2> QED BY <2>1, <2>2
  <1>13. Numbered'
    BY <1>1, <1>4 DEF IInv, Numbered, Idle
  <1>14. ASSUME NEW f \in memory' PROVE Traced(f)'
    <2>1. Traced(f) /\ f # None
      BY <1>1, <1>2, NoneIsNoRecord DEF IInv
    <2>2. CASE f # c.event.output
      <3>1. Pending(f)' = Pending(f)
        BY <1>1, <1>4, <2>2 DEF Pending, Idle
      <3>2. Logged(f)' = Logged(f)
        BY <1>5, <1>6, <2>2 DEF Logged
      <3> QED BY <1>1, <1>6, <2>1, <3>1, <3>2 DEF Traced
    <2>3. CASE f = c.event.output
      <3>1. p \in Pending(f)
        BY <1>1, <2>3 DEF Pending
      <3>2. Pending(f) = {p} /\ Logged(f) = {} /\ f \notin orphans
        BY <2>1, <3>1 DEF Traced
      <3>3. Pending(f)' = {}
        BY <1>4, <3>2 DEF Pending, Idle
      <3>4. Logged(f)' = {n}
        BY <1>5, <1>6, <2>3, <3>2 DEF Logged
      <3> QED BY <1>1, <1>6, <3>2, <3>3, <3>4 DEF Traced
    <2> QED BY <2>2, <2>3
  <1> QED BY <1>7, <1>8, <1>12, <1>13, <1>14 DEF IInv

\* A process dies, and with it the event it was about to append.
LEMMA CrashStep ==
  ASSUME IInv, NEW p \in Processes, Crash(p)
  PROVE  IInv'
  <1> PICK c \in Calls : c = calls[p]
    BY DEF IInv, TypeOK
  <1>1. /\ calls' = [calls EXCEPT ![p] = Idle] /\ crashes' = crashes + 1 /\ crashes < MaxCrashes
        /\ orphans' = IF c.stage = "emitting" THEN orphans \cup ({c.event.output} \ {None})
                      ELSE orphans
        /\ UNCHANGED <<disk, memory, audit, made, changes>>
    BY DEF Crash
  <1>2. calls \in [Processes -> Calls] /\ memory \subseteq Files
    BY DEF IInv, TypeOK
  <1>3. /\ calls' \in [Processes -> Calls] /\ calls'[p] = Idle
        /\ \A q \in Processes \ {p} : calls'[q] = calls[q]
    BY <1>1, <1>2, Constructed
  <1>4. TypeOK'
    <2>1. c.stage = "emitting" => c.event.output \in memory \cup {None}
      BY DEF IInv, CallInv
    <2>2. orphans' \subseteq memory
      BY <1>1, <2>1 DEF IInv, TypeOK
    <2>3. crashes' \in 0 .. MaxCrashes
      BY <1>1, AgentsAssumption DEF IInv, TypeOK
    <2> QED BY <1>1, <1>3, <2>2, <2>3 DEF IInv, TypeOK
  <1>5. OutputsExist'
    BY <1>1 DEF IInv, OutputsExist, Named
  <1>6. ASSUME NEW q \in Processes PROVE CallInv(calls[q])'
    <2>1. CASE q = p
      BY <2>1, <1>3 DEF CallInv, Idle
    <2>2. CASE q # p
      <3>1. PICK d \in Calls : d = calls[q]
        BY <1>2
      <3>2. CallInv(d)'
        BY <1>1, <3>1, CallInvKept DEF IInv
      <3>3. calls'[q] = d
        BY <1>3, <2>2, <3>1
      <3> QED BY <3>2, <3>3 DEF CallInv
    <2> QED BY <2>1, <2>2
  <1>7. Numbered'
    BY <1>1, <1>3 DEF IInv, Numbered, Idle
  <1>8. ASSUME NEW f \in memory' PROVE Traced(f)'
    <2>1. Traced(f) /\ f # None /\ Logged(f)' = Logged(f)
      BY <1>1, <1>2, NoneIsNoRecord DEF IInv, Logged
    <2>2. CASE c.stage = "emitting" /\ c.event.output = f
      <3>1. p \in Pending(f)
        BY <2>2 DEF Pending
      <3>2. Pending(f) = {p} /\ Logged(f) = {}
        BY <2>1, <3>1 DEF Traced
      <3>3. Pending(f)' = {}
        BY <1>3, <3>2 DEF Pending, Idle
      <3> QED BY <1>1, <2>1, <2>2, <3>2, <3>3 DEF Traced
    <2>3. CASE ~ (c.stage = "emitting" /\ c.event.output = f)
      <3>1. Pending(f)' = Pending(f)
        BY <1>3, <2>3 DEF Pending, Idle
      <3>2. f \in orphans' <=> f \in orphans
        BY <1>1, <2>3
      <3> QED BY <1>1, <2>1, <3>1, <3>2 DEF Traced
    <2> QED BY <2>2, <2>3
  <1> QED BY <1>1, <1>4, <1>5, <1>6, <1>7, <1>8 DEF IInv

\* A call goes on in its loop, or leaves it with the record it writes.
LEMMA MoveStep ==
  ASSUME IInv, NEW p \in Processes, NEW c \in Calls, c = calls[p], c.stage = "checking",
         NEW d \in Calls, d.id = c.id, d.stage \in {"checking", "emitting"}, CallInv(d)',
         NEW out \in Files \cup {None},
         out # None => out.id = c.id /\ d.stage = "emitting",
         d.stage = "emitting" => d.event.output = out,
         calls' = [calls EXCEPT ![p] = d], memory' = memory \cup ({out} \ {None}),
         UNCHANGED <<disk, audit, made, changes, crashes, orphans>>
  PROVE  IInv'
  <1>1. /\ calls \in [Processes -> Calls] /\ memory \subseteq Files
        /\ c.id \in 1 .. made /\ made \in Nat
    BY DEF IInv, TypeOK, Numbered
  <1>2. /\ calls' \in [Processes -> Calls] /\ calls'[p] = d
        /\ \A q \in Processes \ {p} : calls'[q] = calls[q]
    BY <1>1
  <1>3. TypeOK'
    BY <1>2 DEF IInv, TypeOK
  <1>4. OutputsExist'
    BY DEF IInv, OutputsExist, Named
  <1>5. ASSUME NEW q \in Processes PROVE CallInv(calls[q])'
    <2>1. CASE q = p
      BY <2>1, <1>2 DEF CallInv
    <2>2. CASE q # p
      <3>1. PICK e \in Calls : e = calls[q]
        BY <1>1
      <3>2. CallInv(e)'
        BY <3>1, CallInvKept DEF IInv
      <3>3. calls'[q] = e
        BY <1>2, <2>2, <3>1
      <3> QED BY <3>2, <3>3 DEF CallInv
    <2> QED BY <2>1, <2>2
  <1>6. Numbered'
    <2>1. \A f \in memory' : f.id <= made
      BY <1>1 DEF IInv, Numbered
    <2>2. \A q \in Processes : calls'[q].stage # "idle" =>
            calls[q].stage # "idle" /\ calls'[q].id = calls[q].id
      BY <1>2
    <2>3. ASSUME NEW q \in Processes, calls'[q].stage = "checking", NEW f \in memory'
          PROVE  f.id # calls'[q].id
      <3>1. CASE q = p
        <4>1. f \in memory
          BY <3>1, <2>3, <1>2
        <4> QED BY <3>1, <4>1, <1>2 DEF IInv, Numbered
      <3>2. CASE q # p
        <4>1. calls[q].stage = "checking" /\ calls'[q] = calls[q] /\ calls[q].id # c.id
          BY <3>2, <2>3, <1>2 DEF IInv, Numbered
        <4> QED BY <4>1 DEF IInv, Numbered
      <3> QED BY <3>1, <3>2
    <2> QED BY <2>1, <2>2, <2>3 DEF IInv, Numbered
  <1>7. ASSUME NEW f \in memory' PROVE Traced(f)'
    <2>1. Logged(f)' = Logged(f)
      BY DEF Logged
    <2>2. CASE f \in memory
      <3>1. f # out /\ f # None
        BY <1>1, <2>2, NoneIsNoRecord DEF IInv, Numbered
      <3>2. Pending(f)' = Pending(f)
        BY <1>2, <3>1 DEF Pending
      <3> QED BY <2>1, <2>2, <3>2 DEF IInv, Traced
    <2>3. CASE f \notin memory
      <3>1. f = out /\ f # None /\ f \in Files
        BY <2>3
      <3>2. Pending(f) = {} /\ Logged(f) = {} /\ f \notin orphans
        BY <2>3, <3>1, Untraced
      <3>3. Pending(f)' = {p}
        BY <1>2, <3>1, <3>2 DEF Pending
      <3> QED BY <2>1, <3>2, <3>3 DEF Traced
    <2> QED BY <2>2, <2>3
  <1> QED BY <1>3, <1>4, <1>5, <1>6, <1>7 DEF IInv

\* A claim is found strong just when it quotes an artifact that is there.
LEMMA StrongClaims ==
  ASSUME NEW q \in Claims, NEW exists \in BOOLEAN
  PROVE  /\ ClaimState(q, exists) \in ClaimStates
         /\ ClaimState(q, exists) \in Strong <=> exists /\ q.excerpt
  BY DEF ClaimState, ClaimStates, Strong, Claims

\* The next artifact was there or not when it was looked at.
LEMMA CheckNextStep ==
  ASSUME IInv, NEW p \in Processes, CheckNext(p)
  PROVE  IInv'
  <1>1. PICK c \in Calls : c = calls[p]
    BY DEF IInv, TypeOK
  <1> DEFINE h == Head(c.todo)
             exists == h.ref \in disk \cup {Root}
             to == [c EXCEPT !.todo = Tail(c.todo), !.missing = c.missing \/ ~ exists,
                             !.states = c.states \cup {ClaimState(h, exists)}]
  <1>2. /\ c.stage = "checking" /\ c.todo # <<>> /\ calls' = [calls EXCEPT ![p] = to]
        /\ UNCHANGED <<disk, memory, audit, made, changes, crashes, orphans>>
    BY <1>1 DEF CheckNext
  <1>3. /\ c.todo \in Seq(Claims) /\ c.asked \subseteq Claims /\ c.missing \in BOOLEAN
        /\ c.states \subseteq ClaimStates /\ disk \subseteq Refs
        /\ LoopInv(c)
    BY <1>1, <1>2 DEF Calls, IInv, TypeOK, CallInv
  <1>4. /\ h \in Claims /\ h = c.todo[1] /\ Tail(c.todo) \in Seq(Claims)
        /\ DOMAIN c.todo = 1 .. Len(c.todo) /\ DOMAIN Tail(c.todo) = 1 .. Len(c.todo) - 1
        /\ \A i \in 1 .. Len(c.todo) - 1 : Tail(c.todo)[i] = c.todo[i + 1]
        /\ Len(c.todo) \in Nat \ {0}
    BY <1>2, <1>3
  <1>5. /\ ClaimState(h, exists) \in ClaimStates
        /\ ClaimState(h, exists) \in Strong <=> exists /\ h.excerpt
    <2> exists \in BOOLEAN
      OBVIOUS
    <2> HIDE DEF h, exists
    <2> QED BY <1>4, StrongClaims
  <1>6. to \in Calls
    BY <1>3, <1>4, <1>5 DEF Calls
  <1>7. PICK d \in Calls : d = to
    BY <1>6
  <1>8. /\ d.todo = Tail(c.todo) /\ d.missing = (c.missing \/ ~ exists)
        /\ d.states = c.states \cup {ClaimState(h, exists)}
        /\ d.stage = "checking" /\ d.id = c.id /\ d.op = c.op
        /\ d.asked = c.asked /\ d.present = c.present /\ d.absent = c.absent
    BY <1>2, <1>7 DEF Calls
  <1> HIDE DEF to
  <1>9. LoopInv(d)
    <2>1. \A i \in DOMAIN d.todo : d.todo[i] \in d.asked
      BY <1>3, <1>4, <1>8 DEF LoopInv
    <2>2. h \in c.asked
      BY <1>3, <1>4 DEF LoopInv
    <2>3. c.op # "claims" /\ ~ exists => h.ref \in c.absent
      BY <1>3, <2>2 DEF LoopInv, Paths
    <2>5. ~ (ClaimState(h, exists) \in Strong) => Weak(c, h)
      BY <1>3, <1>4, <1>5 DEF LoopInv, Weak, Claims, Paths
    <2>6. ~ (d.states \subseteq Strong) => \E q \in d.asked : Weak(d, q)
      BY <1>3, <1>8, <2>2, <2>5 DEF LoopInv, Weak
    <2>4. ASSUME NEW q \in c.asked, \A i \in DOMAIN d.todo : d.todo[i] # q
          PROVE  /\ ~ d.missing => q.ref \in d.present
                 /\ d.states \subseteq Strong => q.ref \in d.present /\ q.excerpt
      <3>1. CASE q = h
        BY <3>1, <1>3, <1>5, <1>8 DEF LoopInv
      <3>2. CASE q # h
        <4>1. \A i \in DOMAIN c.todo : i = 1 \/ (i - 1 \in DOMAIN d.todo /\ d.todo[i - 1] = c.todo[i])
          BY <1>4, <1>8
        <4>2. \A i \in DOMAIN c.todo : c.todo[i] # q
          BY <2>4, <3>2, <4>1, <1>4
        <4> QED BY <4>2, <1>3, <1>8 DEF LoopInv
      <3> QED BY <3>1, <3>2
    <2> QED BY <1>3, <1>8, <2>1, <2>2, <2>3, <2>4, <2>6 DEF LoopInv
  <1>10. CallInv(d)'
    BY <1>2, <1>3, <1>8, <1>9 DEF CallInv, LoopInv, Weak
  <1>11. calls' = [calls EXCEPT ![p] = d]
    BY <1>2, <1>7
  <1>12. memory' = memory \cup ({None} \ {None})
    BY <1>2
  <1> QED BY <1>1, <1>2, <1>8, <1>10, <1>11, <1>12, MoveStep

\* A handler that concludes has grounds for its status.
LEMMA ConcludeStep ==
  ASSUME IInv, NEW p \in Processes, NEW c \in Calls, c = calls[p],
         NEW op \in {"evidence", "claims", "lineage"}, NEW action \in Actions,
         NEW output \in Files \cup {None}, NEW status \in {"success", "blocked", "escalated"},
         Conclude(p, op, action, output, status),
         output # None => output.id = c.id,
         status = "success" => \A q \in c.asked : q.ref \in c.present /\ (op = "claims" => q.excerpt),
         status # "success" =>
           \E q \in c.asked : q.ref \in c.absent \/ (op = "claims" /\ (q.ref = None \/ ~ q.excerpt))
  PROVE  IInv'
  <1>1. /\ c.stage = "checking" /\ c.op = op /\ memory' = memory \cup ({output} \ {None})
        /\ calls' = [calls EXCEPT ![p] = Emitting(c, Event("archivist", action, c.task, None, output, status))]
        /\ UNCHANGED <<disk, audit, made, changes, crashes, orphans>>
    BY DEF Conclude
  <1>2. c.task \in Tasks
    BY DEF Calls
  <1>3. PICK e \in AuditEvents : e = Event("archivist", action, c.task, None, output, status)
    <2>1. Event("archivist", action, c.task, None, output, status) \in AuditEvents
      BY <1>2 DEF Event, AuditEvents
    <2> QED BY <2>1
  <1>4. PICK d \in Calls : d = Emitting(c, e)
    BY Constructed
  <1>5. /\ d.stage = "emitting" /\ d.event = e /\ d.id = c.id /\ d.op = op
        /\ d.asked = c.asked /\ d.present = c.present /\ d.absent = c.absent
    BY <1>1, <1>4 DEF Emitting, Calls
  <1>6. e.output = output /\ e.status = status
    BY <1>3 DEF Event
  <1>7. Founded(d)
    BY <1>5, <1>6 DEF Founded
  <1>8. CallInv(d)'
    BY <1>1, <1>5, <1>6, <1>7 DEF CallInv, Founded
  <1>9. calls' = [calls EXCEPT ![p] = d]
    BY <1>1, <1>3, <1>4
  <1>10. /\ c.stage = "checking" /\ d.id = c.id /\ d.stage \in {"checking", "emitting"}
         /\ d.stage = "emitting" => d.event.output = output
         /\ output # None => output.id = c.id /\ d.stage = "emitting"
         /\ memory' = memory \cup ({output} \ {None})
         /\ UNCHANGED <<disk, audit, made, changes, crashes, orphans>>
    BY <1>1, <1>5, <1>6
  <1> QED BY <1>8, <1>9, <1>10, MoveStep

\* A loop that has looked at everything: what it found is what it asked for.
LEMMA LoopOver ==
  ASSUME IInv, NEW p \in Processes, NEW c \in Calls, c = calls[p],
         c.stage = "checking", c.todo = <<>>
  PROVE  /\ ~ c.missing => \A q \in c.asked : q.ref \in c.present
         /\ c.states \subseteq Strong => \A q \in c.asked : q.ref \in c.present /\ q.excerpt
         /\ c.op # "claims" /\ c.missing => \E q \in c.asked : q.ref \in c.absent
         /\ ~ (c.states \subseteq Strong) => \E q \in c.asked : Weak(c, q)
         /\ \A dir \in {"tasks", "approvals", "lineage"} :
              /\ Record(dir, c.id, c.task) \in Files /\ Record(dir, c.id, c.task).id = c.id
  <1>1. LoopInv(c) /\ c.task \in Tasks
    BY DEF IInv, CallInv, Calls
  <1>2. \A i \in DOMAIN c.todo : FALSE
    OBVIOUS
  <1>3. c.id \in Ids
    BY AgentsAssumption DEF IInv, TypeOK, Numbered, Ids
  <1>4. \A dir \in {"tasks", "approvals", "lineage"} :
          /\ Record(dir, c.id, c.task) \in Files /\ Record(dir, c.id, c.task).id = c.id
    BY <1>1, <1>3 DEF Record, Files
  <1> QED BY <1>1, <1>2, <1>4 DEF LoopInv

LEMMA ConcludeSteps ==
  ASSUME IInv, NEW p \in Processes,
         ConcludeEvidence(p) \/ ConcludeClaims(p) \/ ConcludeLineage(p)
  PROVE  IInv'
  <1> PICK c \in Calls : c = calls[p]
    BY DEF IInv, TypeOK
  <1>0. c.stage = "checking" /\ c.todo = <<>>
    BY DEF ConcludeEvidence, ConcludeClaims, ConcludeLineage, Conclude
  <1>1. CASE c.missing /\ Conclude(p, "evidence", "evidence_collection_escalated",
                                  Record("approvals", c.id, c.task), "escalated")
    <2>1. c.op = "evidence"
      BY <1>1 DEF Conclude
    <2>2. \E q \in c.asked : q.ref \in c.absent
      BY <1>0, <1>1, <2>1, LoopOver
    <2>3. PICK out \in Files : out = Record("approvals", c.id, c.task) /\ out.id = c.id
      BY <1>0, LoopOver
    <2> QED BY <1>1, <2>2, <2>3, ConcludeStep DEF Actions
  <1>2. CASE ~ c.missing /\ Conclude(p, "evidence", "evidence_summary_created", None, "success")
    <2>1. \A q \in c.asked : q.ref \in c.present
      BY <1>0, <1>2, LoopOver
    <2> QED BY <1>2, <2>1, ConcludeStep DEF Actions
  <1>3. CASE ConcludeClaims(p)
    <2>1. CASE c.states \subseteq Strong
      <3>1. \A q \in c.asked : q.ref \in c.present /\ q.excerpt
        BY <1>0, <2>1, LoopOver
      <3>2. Conclude(p, "claims", "claim_validation_completed", None, "success")
        BY <1>3, <2>1 DEF ConcludeClaims, Strong
      <3> QED BY <3>1, <3>2, ConcludeStep DEF Actions
    <2>2. CASE ~ (c.states \subseteq Strong)
      <3>1. Conclude(p, "claims", "claim_validation_completed", None, "blocked")
        BY <1>3, <2>2 DEF ConcludeClaims, Strong
      <3>2. \E q \in c.asked : Weak(c, q)
        BY <1>0, <2>2, LoopOver
      <3> QED BY <3>1, <3>2, ConcludeStep DEF Actions, Weak
    <2> QED BY <2>1, <2>2
  <1>4. CASE ~ c.missing /\ Conclude(p, "lineage", "lineage_record_created",
                                    Record("lineage", c.id, c.task), "success")
    <2>1. \A q \in c.asked : q.ref \in c.present
      BY <1>0, <1>4, LoopOver
    <2>2. PICK out \in Files : out = Record("lineage", c.id, c.task) /\ out.id = c.id
      BY <1>0, LoopOver
    <2> QED BY <1>4, <2>1, <2>2, ConcludeStep DEF Actions
  <1>5. CASE c.missing /\ Conclude(p, "lineage", "lineage_record_created", None, "blocked")
    <2>1. c.op = "lineage"
      BY <1>5 DEF Conclude
    <2>2. \E q \in c.asked : q.ref \in c.absent
      BY <1>0, <1>5, <2>1, LoopOver
    <2> QED BY <1>5, <2>2, ConcludeStep DEF Actions
  <1> QED BY <1>1, <1>2, <1>3, <1>4, <1>5 DEF ConcludeEvidence, ConcludeLineage

\* Artifacts come and go under the calls that look at them.
LEMMA ChangeDiskStep ==
  ASSUME IInv, NEW r \in Refs, ChangeDisk(r)
  PROVE  IInv'
  <1>1. /\ changes' = changes + 1 /\ changes < MaxChanges /\ disk' \subseteq Refs
        /\ UNCHANGED <<memory, audit, made, crashes, orphans>>
    BY DEF ChangeDisk, IInv, TypeOK
  <1>2. ASSUME NEW p \in Processes
        PROVE  /\ calls'[p] \in Calls /\ calls'[p].stage = calls[p].stage
               /\ calls'[p].id = calls[p].id /\ calls'[p].event = calls[p].event
               /\ CallInv(calls[p])'
    <2>1. PICK c \in Calls : c = calls[p] /\ CallInv(c)
      BY DEF IInv, TypeOK
    <2> DEFINE to == [c EXCEPT !.present = c.present \cup disk', !.absent = c.absent \cup (Refs \ disk')]
    <2>2. CASE c.stage # "checking"
      <3>1. calls'[p] = c
        BY <2>1, <2>2 DEF ChangeDisk
      <3> QED BY <1>1, <2>1, <2>2, <3>1 DEF CallInv, Founded
    <2>3. CASE c.stage = "checking"
      <3>1. calls'[p] = to
        BY <2>1, <2>3 DEF ChangeDisk
      <3>2. to \in Calls
        BY <1>1, <2>1 DEF Calls, Paths
      <3>3. PICK d \in Calls : d = to
        BY <3>2
      <3>4. /\ d.stage = "checking" /\ d.id = c.id /\ d.event = c.event
            /\ d.op = c.op /\ d.todo = c.todo /\ d.asked = c.asked
            /\ d.missing = c.missing /\ d.states = c.states
            /\ d.present = c.present \cup disk' /\ d.absent = c.absent \cup (Refs \ disk')
        BY <2>3, <3>3 DEF Calls
      <3> HIDE DEF to
      <3>5. LoopInv(c)
        BY <2>1, <2>3 DEF CallInv
      <3>6. LoopInv(d)'
        BY <3>4, <3>5 DEF LoopInv, Weak
      <3>7. CallInv(d)'
        BY <1>1, <3>4, <3>6 DEF CallInv
      <3> QED BY <2>1, <2>3, <3>1, <3>3, <3>4, <3>7 DEF CallInv
    <2> QED BY <2>2, <2>3
  <1>3. TypeOK'
    <2>1. calls' \in [Processes -> Calls]
      BY <1>2 DEF ChangeDisk
    <2>2. changes' \in 0 .. MaxChanges
      BY <1>1, AgentsAssumption DEF IInv, TypeOK
    <2> QED BY <1>1, <2>1, <2>2 DEF IInv, TypeOK
  <1>4. OutputsExist'
    BY <1>1 DEF IInv, OutputsExist, Named
  <1>5. Numbered'
    BY <1>1, <1>2 DEF IInv, Numbered
  <1>6. \A f \in memory : Traced(f)'
    <2>1. ASSUME NEW f \in memory PROVE Pending(f)' = Pending(f) /\ Logged(f)' = Logged(f)
      BY <1>1, <1>2 DEF Pending, Logged
    <2> QED BY <1>1, <2>1 DEF IInv, Traced
  <1> QED BY <1>1, <1>2, <1>3, <1>4, <1>5, <1>6 DEF IInv

\* A call that does its work before its event, with nothing to look at.
LEMMA EmittingStep ==
  ASSUME IInv, NEW p \in Processes, NEW call \in Calls, NEW e \in AuditEvents,
         Saving(p, call, e), call.op = "none",
         e.output # None => e.output.id = made + 1
  PROVE  IInv'
  <1>1. PICK d \in Calls : d = Emitting(call, e)
    BY Constructed
  <1>2. /\ d.stage = "emitting" /\ d.event = e /\ d.op = "none"
    BY <1>1 DEF Emitting, Calls
  <1>3. Start(p, Emitting(call, e)) /\ memory' = memory \cup ({e.output} \ {None})
    BY DEF Saving
  <1>4. e.output \in Files \cup {None}
    BY DEF AuditEvents
  <1>5. CallInv(d)'
    <2>1. e.output \in memory' \cup {None}
      BY <1>3, <1>4
    <2> QED BY <1>2, <2>1 DEF CallInv, Founded
  <1>6. PICK out \in Files \cup {None} : out = e.output
    BY <1>4
  <1> QED BY <1>1, <1>2, <1>3, <1>5, <1>6, StartStep

\* A handler that will look at a list of artifacts, or of claims.
LEMMA CheckingStep ==
  ASSUME IInv, NEW p \in Processes, NEW op \in {"evidence", "claims", "lineage"},
         NEW task \in Tasks, NEW todo \in Seq(Claims),
         Start(p, Checking(op, task, todo)), UNCHANGED memory,
         op # "claims" => \A i \in DOMAIN todo : todo[i].ref \in Paths
  PROVE  IInv'
  <1>1. disk \subseteq Refs /\ DOMAIN todo = 1 .. Len(todo)
    BY DEF IInv, TypeOK
  <1>2. {todo[i] : i \in DOMAIN todo} \subseteq Claims
    BY <1>1
  <1>3. Checking(op, task, todo) \in Calls
    BY <1>1, <1>2, Constructed DEF Checking, Calls, Paths
  <1>4. PICK d \in Calls : d = Checking(op, task, todo)
    BY <1>3
  <1>5. /\ d.stage = "checking" /\ d.op = op /\ d.todo = todo /\ d.missing = FALSE /\ d.states = {}
        /\ d.asked = {todo[i] : i \in DOMAIN todo}
        /\ d.present = disk \cup {Root} /\ d.absent = Refs \ disk
    BY <1>4 DEF Checking, Idle
  <1>6. LoopInv(d)
    BY <1>1, <1>5 DEF LoopInv
  <1>7. CallInv(d)'
    <2>1. disk' = disk
      BY DEF Start
    <2> QED BY <1>5, <1>6, <2>1 DEF CallInv, LoopInv, Weak
  <1>8. memory' = memory \cup ({None} \ {None})
    OBVIOUS
  <1> QED BY <1>4, <1>5, <1>7, <1>8, StartStep

LEMMA LogOnlyStep ==
  ASSUME IInv, NEW p \in Processes, IntakeBlocked(p) \/ GmailDraft(p) \/ ProduceStatusSummary(p)
  PROVE  IInv'
  <1>1. PICK action \in Actions, status \in {"blocked", "success"} : LogOnly(p, action, status)
    BY DEF IntakeBlocked, GmailDraft, ProduceStatusSummary, Actions
  <1>2. PICK e \in AuditEvents : e = Event("commander", action, None, None, None, status)
    <2>1. Event("commander", action, None, None, None, status) \in AuditEvents
      BY DEF Event, AuditEvents, Tasks
    <2> QED BY <2>1
  <1>3. e.output = None
    BY <1>2 DEF Event
  <1>4. PICK c \in Calls : c = Idle /\ c.op = "none"
    BY Constructed DEF Idle
  <1>5. Saving(p, c, e)
    BY <1>1, <1>2, <1>4 DEF LogOnly
  <1> QED BY <1>3, <1>4, <1>5, EmittingStep

\* Both calls that write a record with their event: an intake and a stub.
LEMMA SavingStep ==
  ASSUME IInv, NEW p \in Processes, NEW action \in Actions, NEW task \in Tasks \cup {made + 1},
         NEW intent \in Intents \cup {None}, NEW dir \in {"tasks", "approvals"},
         Saving(p, Idle, Event("commander", action, task, intent,
                               Record(dir, made + 1, task), "success"))
  PROVE  IInv'
  <1>1. made + 1 \in Ids /\ task \in Tasks
    BY AgentsAssumption DEF IInv, TypeOK, Saving, Start, Ids, Tasks
  <1>2. PICK file \in Files : file = Record(dir, made + 1, task)
    BY <1>1 DEF Files, Record
  <1>3. PICK e \in AuditEvents : e = Event("commander", action, task, intent, file, "success")
    <2>1. Event("commander", action, task, intent, file, "success") \in AuditEvents
      BY <1>1 DEF Event, AuditEvents
    <2> QED BY <2>1
  <1>4. e.output = file /\ file.id = made + 1
    BY <1>2, <1>3 DEF Event, Record
  <1>5. PICK c \in Calls : c = Idle /\ c.op = "none"
    BY Constructed DEF Idle
  <1>6. Saving(p, c, e)
    BY <1>2, <1>3, <1>5
  <1> QED BY <1>4, <1>5, <1>6, EmittingStep

LEMMA IntakeStep ==
  ASSUME IInv, NEW p \in Processes, NEW intent \in SPRINT1_VALID_INTENTS, Intake(p, intent)
  PROVE  IInv'
  BY SavingStep DEF Intake, Actions, Intents

\* What may be named as a task is one.
LEMMA NameableTasks == IInv => Nameable \subseteq Tasks
  BY DEF IInv, TypeOK, Nameable, Tasks, Files

LEMMA ProduceApprovalStubStep ==
  ASSUME IInv, NEW p \in Processes, NEW task \in Nameable, ProduceApprovalStub(p, task)
  PROVE  IInv'
  BY SavingStep, NameableTasks DEF ProduceApprovalStub, Actions

\* The paths of a payload, as a handler goes through them.
LEMMA UnclaimedPaths ==
  ASSUME NEW payload \in Payloads
  PROVE  /\ Unclaimed(payload) \in Seq(Claims)
         /\ \A i \in DOMAIN Unclaimed(payload) : Unclaimed(payload)[i].ref \in Paths
  <1>1. /\ DOMAIN payload = 1 .. Len(payload) /\ Len(payload) \in Nat
        /\ \A i \in 1 .. Len(payload) : payload[i] \in Paths
    BY AgentsAssumption
  <1>2. Unclaimed(payload) \in [1 .. Len(payload) -> Claims]
    BY <1>1 DEF Unclaimed, Claims
  <1>3. Unclaimed(payload) \in Seq(Claims)
    BY <1>1, <1>2
  <1>4. \A i \in DOMAIN Unclaimed(payload) : Unclaimed(payload)[i].ref \in Paths
    BY <1>1 DEF Unclaimed
  <1> QED BY <1>3, <1>4

\* Whatever dict the Archivist is given, it goes into a loop or refuses it.
LEMMA ProcessTaskStep ==
  ASSUME IInv, NEW p \in Processes, NEW task \in Nameable, NEW intent \in Intents,
         NEW payload \in Payloads, NEW claims \in ClaimLists,
         ProcessTask(p, task, intent, payload, claims)
  PROVE  IInv'
  <1>1. task \in Tasks /\ claims \in Seq(Claims)
    BY AgentsAssumption, NameableTasks
  <1>2. PICK todo \in Seq(Claims) :
          todo = Unclaimed(payload) /\ \A i \in DOMAIN todo : todo[i].ref \in Paths
    BY UnclaimedPaths
  <1>3. UNCHANGED memory
    BY DEF ProcessTask, CollectEvidence, CollectLineage, ValidateClaims
  <1>4. CASE CollectEvidence(p, task, payload) \/ CollectLineage(p, task, payload)
    <2>1. PICK op \in {"evidence", "lineage"} : Start(p, Checking(op, task, todo))
      BY <1>2, <1>4 DEF CollectEvidence, CollectLineage
    <2> QED BY <1>1, <1>2, <1>3, <2>1, CheckingStep
  <1>5. CASE Start(p, Checking("claims", task, claims))
    BY <1>1, <1>3, <1>5, CheckingStep
  <1>6. ASSUME NEW action \in Actions, NEW said \in Intents \cup {None},
               Start(p, Emitting(Idle, Blocked(action, task, said)))
        PROVE  IInv'
    <2>1. PICK e \in AuditEvents : e = Blocked(action, task, said)
      <3>1. Blocked(action, task, said) \in AuditEvents
        BY <1>1 DEF Blocked, Event, AuditEvents
      <3> QED BY <3>1
    <2>2. e.output = None
      BY <2>1 DEF Blocked, Event
    <2>3. PICK c \in Calls : c = Idle /\ c.op = "none"
      BY Constructed DEF Idle
    <2>4. Saving(p, c, e)
      BY <1>3, <1>6, <2>1, <2>2, <2>3 DEF Saving
    <2> QED BY <2>2, <2>3, <2>4, EmittingStep
  <1> QED BY <1>4, <1>5, <1>6 DEF ProcessTask, ValidateClaims, Actions

LEMMA InvStep == IInv /\ [Next]_vars => IInv'
  <1> SUFFICES ASSUME IInv, [Next]_vars PROVE IInv'
    OBVIOUS
  <1>1. ASSUME NEW p \in Processes, Begin(p) PROVE IInv'
    BY <1>1, LogOnlyStep, IntakeStep, ProduceApprovalStubStep, ProcessTaskStep DEF Begin
  <1>2. ASSUME NEW p \in Processes, Continue(p) PROVE IInv'
    BY <1>2, CheckNextStep, ConcludeSteps, EmitStep DEF Continue
  <1>3. ASSUME NEW p \in Processes, Crash(p) PROVE IInv'
    BY <1>3, CrashStep
  <1>4. ASSUME NEW r \in Refs, ChangeDisk(r) PROVE IInv'
    BY <1>4, ChangeDiskStep
  <1>5. CASE UNCHANGED vars
    <2>1. UNCHANGED <<disk, memory, audit, calls, made, changes, crashes, orphans>>
      BY <1>5 DEF vars
    <2>2. TypeOK' /\ OutputsExist' /\ Numbered'
      BY <2>1 DEF IInv, TypeOK, OutputsExist, Named, Numbered
    <2>3. ASSUME NEW p \in Processes PROVE CallInv(calls[p])'
      BY <2>1 DEF IInv, CallInv, LoopInv, Weak, Founded
    <2>4. ASSUME NEW f \in memory' PROVE Traced(f)'
      BY <2>1 DEF IInv, Traced, Pending, Logged
    <2> QED BY <2>2, <2>3, <2>4 DEF IInv
  <1> QED BY <1>1, <1>2, <1>3, <1>4, <1>5 DEF Next

LEMMA InvInit == Init => IInv
  <1> SUFFICES ASSUME Init PROVE IInv
    OBVIOUS
  <1>1. TypeOK
    BY Constructed, AgentsAssumption DEF Init, TypeOK
  <1>2. OutputsExist /\ Numbered
    BY DEF Init, OutputsExist, Named, Numbered, Idle
  <1>3. ASSUME NEW p \in Processes PROVE CallInv(calls[p])
    BY DEF Init, CallInv, Idle
  <1> QED BY <1>1, <1>2, <1>3 DEF IInv, Init

LEMMA InvHolds == Spec => []IInv
  BY InvInit, InvStep, PTL DEF Spec

-----------------------------------------------------------------------------
(* The theorems *)

\* Every variable keeps its type.
THEOREM TypeCorrect == Spec => []TypeOK
  BY InvHolds, PTL DEF IInv

\* No event names a record that is not there.
THEOREM OutputsAreThere == Spec => []OutputsExist
  BY InvHolds, PTL DEF IInv

\* Every record is named by one event, or about to be, or its writer died.
THEOREM EveryEffectIsAudited == Spec => []EffectsAreAudited
  <1>1. IInv => EffectsAreAudited
    <2> SUFFICES ASSUME IInv, NEW f \in memory
                 PROVE  Cardinality(Logged(f)) + Cardinality(Pending(f))
                          = IF f \in orphans THEN 0 ELSE 1
      BY DEF EffectsAreAudited, Logged, Pending
    <2>1. Traced(f)
      BY DEF IInv
    <2>2. Cardinality({}) = 0
      BY FS_EmptySet
    <2>3. \A x : Cardinality({x}) = 1
      BY FS_Singleton
    <2>4. CASE f \in orphans
      BY <2>1, <2>2, <2>4 DEF Traced
    <2>5. CASE f \notin orphans
      <3>1. \/ Logged(f) = {} /\ \E p \in Processes : Pending(f) = {p}
            \/ Pending(f) = {} /\ \E i \in DOMAIN audit : Logged(f) = {i}
        BY <2>1, <2>5 DEF Traced
      <3>2. \/ Cardinality(Logged(f)) = 0 /\ Cardinality(Pending(f)) = 1
            \/ Cardinality(Pending(f)) = 0 /\ Cardinality(Logged(f)) = 1
        BY <2>2, <2>3, <3>1
      <3> QED BY <2>5, <3>2
    <2> QED BY <2>4, <2>5
  <1> QED BY <1>1, InvHolds, PTL

\* The verdicts the Archivist reaches are founded in what it saw.
THEOREM EveryVerdictIsFounded == Spec => []VerdictsAreFounded
  <1>1. IInv => VerdictsAreFounded
    <2> SUFFICES ASSUME IInv, NEW p \in Processes, calls[p].stage = "emitting" PROVE Founded(calls[p])
      BY DEF VerdictsAreFounded, Founded
    <2> QED BY DEF IInv, CallInv
  <1> QED BY <1>1, InvHolds, PTL

=============================================================================
