------------------------ MODULE ExportSessionsProofs ------------------------
(***************************************************************************)
(* Proofs about ExportSessions, for any set of overlapping runs, any length*)
(* of a session and any number of faults.                                  *)
(*                                                                         *)
(* The argument: a session's submissions are numbered as its frames, all   *)
(* but the last were admitted, and its results are the answers it has read *)
(* (SessionInv); where its run is says how many that are (RunInv).  What a *)
(* directory holds never helps a session to a certificate.                 *)
(*                                                                         *)
(* Whose bytes a session sends needs AloneInv: two sessions open in one    *)
(* directory have met, so whoever has met nobody finds in it what it wrote *)
(* itself.                                                                 *)
(***************************************************************************)
EXTENDS ExportSessions, FiniteSetTheorems, TLAPS

-----------------------------------------------------------------------------
(* The invariant *)

Submissions == [index : 1 .. N, bytes : Contents]
Reports     == {"none", "all_pass", "failed"}
Places      == [phase : Phases, label : Labels, i : 1 .. N + 1]

\* TypeOK without its statement about sessions that have submitted everything.
\* Every file of a directory has a writer by the time it is read.
Types ==
  /\ judged \in [Requests -> {"no", "psi0", "psi1"}]
  /\ registered \subseteq Requests
  /\ reply \in [Requests -> Gate!Replies]
  /\ kind \in Kinds
  /\ run \in [Runs -> Places]
  /\ sent \in [Sessions -> Seq(Submissions)]
  /\ files \in [Labels -> [1 .. N -> Contents \cup {Nobody}]]
  /\ manifest \in [Labels -> [session : Sessions \cup {Nobody},
                              frames : [1 .. N -> Contents \cup {Nobody}]]]
  /\ DOMAIN passport = Labels
  /\ \A l \in Labels : /\ passport[l].session \in Sessions \cup {Nobody}
                       /\ passport[l].frames \in Seq(Requests)
  /\ results \in [Sessions -> Seq(Requests)]
  /\ outcome \in [Sessions -> Outcomes]
  /\ validated \subseteq Runs
  /\ report \in [Runs -> Reports]
  /\ met \in [Sessions -> SUBSET Sessions]
  /\ faults \in 0 .. MaxFaults

\* What the gate has told its clients is true.
GateTruthful ==
  /\ \A q \in registered : judged[q] = "psi1"
  /\ \A q \in Requests : /\ reply[q] = "admitted" => q \in registered
                         /\ reply[q] = "refused" => judged[q] = "psi0"

Admitted(x, n) == \A k \in 1 .. n : reply[<<x, k>>] = "admitted"

\* The submissions of a session, whoever runs what else.
SessionInv(x) ==
  /\ Len(sent[x]) <= N
  /\ \A k \in 1 .. Len(sent[x]) : /\ sent[x][k].index = k
                                  /\ Forced(x, k) => judged[<<x, k>>] = "psi0"
  /\ \A k \in 1 .. N : k > Len(sent[x]) =>
       judged[<<x, k>>] = "no" /\ reply[<<x, k>>] = "none"
  /\ Admitted(x, Len(sent[x]) - 1)
  /\ Len(results[x]) <= Len(sent[x])
  /\ \A k \in 1 .. Len(results[x]) : results[x][k] = <<x, k>>
  /\ outcome[x] = "certified" =>
       Len(results[x]) = N /\ Len(sent[x]) = N /\ Admitted(x, N)
  /\ outcome[x] = "rejected" =>
       /\ Len(sent[x]) > 0 /\ Len(results[x]) = Len(sent[x])
       /\ reply[<<x, Len(sent[x])>>] = "refused"
  /\ outcome[x] = "comm_error" => Len(sent[x]) > 0 /\ Len(results[x]) = Len(sent[x]) - 1

\* A session that n submissions of were answered, all with "admitted", and none
\* of which is on its way.
Quiet(x, n) ==
  /\ Len(sent[x]) = n /\ Len(results[x]) = n
  /\ Admitted(x, n)
  /\ outcome[x] = "none"

RunInv(r) ==
  LET x == Session(r)
      c == run[r]
  IN  /\ c.phase \in {"open", "write", "frame", "manifest"} => Quiet(x, 0)
      /\ c.phase = "open" => c.i = 1
      /\ c.phase \in {"write", "frame"} => \A k \in 1 .. c.i - 1 : files[c.label][k] \in Contents
      /\ c.phase \in {"manifest", "submit", "wait"} => \A k \in 1 .. N : files[c.label][k] \in Contents
      /\ c.phase = "submit" => Quiet(x, c.i - 1)
      /\ c.phase = "wait" => /\ c.i <= N /\ Len(sent[x]) = c.i /\ Len(results[x]) = c.i - 1
                             /\ outcome[x] = "none"
      /\ c.phase = "dump" => Quiet(x, N)
      /\ c.label = "pass" /\ c.phase \notin {"aborted", "criteria", "done"} =>
           Quiet(<<r, "fail">>, 0)

\* Every frame of the session was admitted.
Complete(x) == Len(sent[x]) = N /\ Admitted(x, N)

\* Whoever wrote the passport has every frame admitted.
PassportInv(l) ==
  LET x == passport[l].session
      f == passport[l].frames
  IN  /\ x \in Sessions => x[2] = l /\ Complete(x)
      /\ f # <<>> =>
           /\ x \in Sessions
           /\ Len(f) = N
           /\ \A i \in 1 .. N : f[i] = <<x, i>>

ReportInv(r) ==
  report[r] = "all_pass" => /\ outcome[<<r, "pass">>] = "certified"
                            /\ outcome[<<r, "fail">>] \in {"rejected", "comm_error"}

IInv ==
  /\ Types
  /\ GateTruthful
  /\ \A x \in Sessions : SessionInv(x)
  /\ \A r \in Runs : RunInv(r)
  /\ \A l \in Labels : PassportInv(l)
  /\ \A r \in Runs : ReportInv(r)

-----------------------------------------------------------------------------
(* Types *)

\* The session of a run and its submissions.
LEMMA RunTypes ==
  ASSUME Types, NEW r \in Runs
  PROVE  /\ Session(r) \in Sessions /\ Session(r)[1] = r /\ Session(r)[2] = run[r].label
         /\ run[r] \in Places /\ Ready \in Places
         /\ \A k \in 1 .. N : <<Session(r), k>> \in Requests
         /\ Len(sent[Session(r)]) \in Nat /\ Len(results[Session(r)]) \in Nat
  BY SessionsAssumption DEF Types, Session, Sessions, Requests, Ready, Places, Phases, Labels

\* The three ways a run moves on.
LEMMA ProceedType ==
  ASSUME Types, NEW r \in Runs, Proceed(r)
  PROVE  /\ run' \in [Runs -> Places]
         /\ \A q \in Runs \ {r} : run'[q] = run[q]
         /\ run[r].label = "pass" =>
              run'[r].phase = "open" /\ run'[r].label = "fail" /\ run'[r].i = 1
         /\ run[r].label # "pass" =>
              run'[r].phase = "criteria" /\ run'[r].label = run[r].label
  <1> DEFINE to == IF run[r].label = "pass" THEN [Ready EXCEPT !.label = "fail"]
                   ELSE [run[r] EXCEPT !.phase = "criteria"]
  <1>1. run \in [Runs -> Places] /\ run[r] \in Places /\ Ready \in Places
    BY RunTypes DEF Types
  <1>2. to \in Places
    <2>1. CASE run[r].label = "pass"
      BY <2>1, <1>1, SessionsAssumption DEF Ready, Places, Labels
    <2>2. CASE run[r].label # "pass"
      BY <2>2, <1>1 DEF Places, Phases
    <2> QED BY <2>1, <2>2
  <1>3. run' = [run EXCEPT ![r] = to]
    BY DEF Proceed
  <1>4. run'[r] = to /\ run' \in [Runs -> Places] /\ \A q \in Runs \ {r} : run'[q] = run[q]
    BY <1>1, <1>2, <1>3
  <1>5. /\ run[r].label = "pass" =>
             to.phase = "open" /\ to.label = "fail" /\ to.i = 1
        /\ run[r].label # "pass" => to.phase = "criteria" /\ to.label = run[r].label
    BY <1>1 DEF Ready, Places
  <1> QED BY <1>4, <1>5

LEMMA GotoType ==
  ASSUME Types, NEW r \in Runs, NEW phase \in Phases, Goto(r, phase)
  PROVE  /\ run' \in [Runs -> Places]
         /\ \A q \in Runs \ {r} : run'[q] = run[q]
         /\ run'[r].phase = phase /\ run'[r].label = run[r].label /\ run'[r].i = run[r].i
  BY DEF Types, Goto, Places

LEMMA HaltType ==
  ASSUME Types, NEW r \in Runs, Halt(r)
  PROVE  /\ run' \in [Runs -> Places]
         /\ \A q \in Runs \ {r} : run'[q] = run[q]
         /\ run'[r].phase = "aborted"
  <1> DEFINE to == [Ready EXCEPT !.phase = "aborted"]
  <1>1. to \in Places /\ to.phase = "aborted"
    BY RunTypes DEF Places, Phases
  <1>2. run' = [run EXCEPT ![r] = to] /\ run \in [Runs -> Places]
    BY DEF Halt, Types
  <1> QED BY <1>1, <1>2

\* What each step of the gate does to its variables.
LEMMA JudgeStep ==
  ASSUME Types, GateTruthful, NEW q \in Requests, NEW psi \in {"psi0", "psi1"}, Gate!Judge(q, psi)
  PROVE  /\ judged' \in [Requests -> {"no", "psi0", "psi1"}]
         /\ registered' = registered /\ reply' = reply
         /\ judged'[q] = psi /\ \A p \in Requests \ {q} : judged'[p] = judged[p]
         /\ GateTruthful'
  BY DEF Types, GateTruthful, Gate!Judge

LEMMA AnswerStep ==
  ASSUME Types, GateTruthful, NEW q \in Requests, NEW a \in {"admitted", "refused"},
         Gate!Answer(q, a)
  PROVE  /\ reply' \in [Requests -> Gate!Replies]
         /\ registered' = registered /\ judged' = judged
         /\ reply'[q] = a /\ \A p \in Requests \ {q} : reply'[p] = reply[p]
         /\ GateTruthful'
  BY DEF Types, GateTruthful, Gate!Answer, Gate!Replies

LEMMA AbandonStep ==
  ASSUME Types, GateTruthful, NEW q \in Requests, Gate!Abandon({q})
  PROVE  /\ reply' \in [Requests -> Gate!Replies]
         /\ registered' = registered /\ judged' = judged
         /\ reply'[q] = "unknown" /\ \A p \in Requests \ {q} : reply'[p] = reply[p]
         /\ GateTruthful'
  BY DEF Types, GateTruthful, Gate!Abandon, Gate!Replies

-----------------------------------------------------------------------------
(* What a step leaves alone *)

Kept(x) ==
  /\ sent'[x] = sent[x] /\ results'[x] = results[x] /\ outcome'[x] = outcome[x]
  /\ \A k \in 1 .. N : judged'[<<x, k>>] = judged[<<x, k>>] /\ reply'[<<x, k>>] = reply[<<x, k>>]

\* Written files stay written.
FilesKept ==
  \A l \in Labels, k \in 1 .. N : files[l][k] \in Contents => files'[l][k] \in Contents

LEMMA SessionKept ==
  ASSUME NEW x \in Sessions, Types, SessionInv(x), Kept(x), kind' = kind
  PROVE  SessionInv(x)'
  <1>1. Len(sent[x]) \in Nat /\ Len(results[x]) \in Nat /\ N \in Nat
    BY SessionsAssumption DEF Types
  <1>2. \A k : Forced(x, k)' = Forced(x, k)
    BY DEF Forced
  <1> QED BY <1>1, <1>2 DEF SessionInv, Admitted, Kept

LEMMA QuietKept ==
  ASSUME NEW x \in Sessions, NEW n \in 0 .. N, Quiet(x, n), Kept(x)
  PROVE  /\ Len(sent'[x]) = n /\ Len(results'[x]) = n /\ outcome'[x] = "none"
         /\ \A k \in 1 .. n : reply'[<<x, k>>] = "admitted"
  BY SessionsAssumption DEF Quiet, Admitted, Kept

\* A run that does not move, and whose sessions nobody touches.
LEMMA RunKept ==
  ASSUME NEW r \in Runs, Types, RunInv(r), run'[r] = run[r], FilesKept,
         \A l \in Labels : Kept(<<r, l>>)
  PROVE  RunInv(r)'
  <1>1. Session(r)' = Session(r) /\ Session(r) \in Sessions /\ Kept(Session(r))
    BY RunTypes DEF Session, Types, Places
  <1>2. <<r, "fail">> \in Sessions /\ Kept(<<r, "fail">>)
    BY DEF Sessions, Labels
  <1>3. run[r] \in Places /\ N \in Nat
    BY RunTypes, SessionsAssumption
  <1>4. \A x \in Sessions : Kept(x) => \A n \in 0 .. N : Quiet(x, n) => Quiet(x, n)'
    BY QuietKept DEF Quiet, Admitted
  <1> DEFINE x == Session(r)
  <1>5. \A n \in 0 .. N : Quiet(x, n) => Quiet(x, n)'
    BY <1>1, <1>4
  <1>6. run[r].label \in Labels /\ run[r].i \in 1 .. N + 1
    BY <1>3 DEF Places
  <1>7. /\ run[r].phase \in {"open", "write", "frame", "manifest"} => Quiet(x, 0)'
        /\ run[r].phase = "submit" => Quiet(x, run[r].i - 1)'
        /\ run[r].phase = "dump" => Quiet(x, N)'
        /\ run[r].label = "pass" /\ run[r].phase \notin {"aborted", "criteria", "done"} =>
             Quiet(<<r, "fail">>, 0)'
    <2>1. 0 \in 0 .. N /\ N \in 0 .. N /\ run[r].i - 1 \in 0 .. N
      BY <1>3, <1>6
    <2> QED BY <2>1, <1>2, <1>4, <1>5 DEF RunInv
  <1>8. /\ run[r].phase = "open" => run[r].i = 1
        /\ run[r].phase \in {"write", "frame"} => \A k \in 1 .. run[r].i - 1 : files'[run[r].label][k] \in Contents
        /\ run[r].phase \in {"manifest", "submit", "wait"} =>
             \A k \in 1 .. N : files'[run[r].label][k] \in Contents
    BY <1>3, <1>6 DEF RunInv, FilesKept
  <1>9. run[r].phase = "wait" =>
          /\ run[r].i <= N /\ Len(sent'[x]) = run[r].i /\ Len(results'[x]) = run[r].i - 1
          /\ outcome'[x] = "none"
    BY <1>1 DEF RunInv, Kept
  <1> HIDE DEF x
  <1> QED BY <1>1, <1>7, <1>8, <1>9 DEF RunInv, x

\* What is left to show of a step of one run: what it does to its own place and
\* its own sessions, to the passports and to the reports.
LEMMA StepOfRun ==
  ASSUME IInv, Types', GateTruthful', kind' = kind, FilesKept, NEW r \in Runs, RunInv(r)',
         \A q \in Runs \ {r} : run'[q] = run[q],
         \A x \in Sessions : \/ Kept(x)
                              \/ /\ x = Session(r) /\ SessionInv(x)'
                                 /\ outcome[x] = "none" /\ (Complete(x) => Complete(x)'),
         \A l \in Labels : passport'[l] = passport[l] \/ PassportInv(l)',
         \A q \in Runs : report'[q] = report[q] \/ ReportInv(q)'
  PROVE  IInv'
  <1>1. \A x \in Sessions : SessionInv(x)'
    BY SessionKept DEF IInv
  <1>2. ASSUME NEW q \in Runs PROVE RunInv(q)'
    <2>1. CASE q = r
      BY <2>1
    <2>2. CASE q # r
      <3>1. \A l \in Labels : <<q, l>> \in Sessions /\ <<q, l>> # Session(r)
        BY <2>2 DEF Sessions, Session
      <3> QED BY <2>2, <3>1, RunKept DEF IInv
    <2> QED BY <2>1, <2>2
  <1>3. \A x \in Sessions : /\ Complete(x) => Complete(x)'
                            /\ outcome[x] # "none" => outcome'[x] = outcome[x]
    BY SessionsAssumption DEF Complete, Admitted, Kept
  <1>4. ASSUME NEW l \in Labels PROVE PassportInv(l)'
    BY <1>3 DEF IInv, PassportInv
  <1>5. ASSUME NEW q \in Runs PROVE ReportInv(q)'
    <2>1. <<q, "pass">> \in Sessions /\ <<q, "fail">> \in Sessions
      BY DEF Sessions, Labels
    <2> QED BY <1>3, <2>1 DEF IInv, ReportInv
  <1> QED BY <1>1, <1>2, <1>4, <1>5 DEF IInv

\* A step that sends, answers and decides nothing.
LEMMA AllKept ==
  ASSUME UNCHANGED <<gate, kind, sent, results, outcome>>
  PROVE  /\ \A x \in Sessions : Kept(x)
         /\ GateTruthful => GateTruthful'
  BY DEF gate, Kept, GateTruthful

-----------------------------------------------------------------------------
(* The steps *)

\* A run that halts leaves everything to the others.
LEMMA HaltStep ==
  ASSUME IInv, NEW r \in Runs, Halt(r),
         UNCHANGED <<gate, kind, sent, disk, books, met>>, faults' \in 0 .. MaxFaults
  PROVE  IInv'
  <1>1. Types'
    BY HaltType DEF IInv, Types, Places, gate, disk, books
  <1>2. (\A x \in Sessions : Kept(x)) /\ GateTruthful'
    BY AllKept DEF IInv, books
  <1>3. RunInv(r)'
    BY HaltType DEF IInv, RunInv
  <1>4. FilesKept /\ passport' = passport /\ report' = report
    BY DEF FilesKept, disk, books
  <1> QED BY <1>1, <1>2, <1>3, <1>4, HaltType, StepOfRun DEF IInv

LEMMA OpenSessionStep ==
  ASSUME IInv, NEW r \in Runs, OpenSession(r)
  PROVE  IInv'
  <1>1. /\ run' \in [Runs -> Places] /\ \A q \in Runs \ {r} : run'[q] = run[q]
        /\ run'[r].phase = "write" /\ run'[r].label = run[r].label /\ run'[r].i = run[r].i
    BY GotoType DEF IInv, OpenSession, Phases
  <1>2. met' \in [Sessions -> SUBSET Sessions]
    <2>1. Session(r) \in Sessions
      BY RunTypes DEF IInv
    <2>2. {Session(q) : q \in {q \in Runs \ {r} : Open(q) /\ run[q].label = run[r].label}}
            \subseteq Sessions
      BY RunTypes DEF IInv
    <2> QED BY <2>1, <2>2 DEF OpenSession, IInv, Types
  <1>3. Types'
    BY <1>1, <1>2 DEF OpenSession, IInv, Types, gate, disk, books
  <1>4. (\A x \in Sessions : Kept(x)) /\ GateTruthful'
    BY AllKept DEF IInv, OpenSession, books
  <1>5. RunInv(r)'
    <2>1. Session(r)' = Session(r)
      BY <1>1 DEF Session
    <2> QED BY <1>1, <2>1, SessionsAssumption
            DEF IInv, RunInv, OpenSession, Quiet, Admitted, gate, books
  <1>6. FilesKept /\ passport' = passport /\ report' = report
    BY DEF FilesKept, OpenSession, disk, books
  <1> QED BY <1>1, <1>3, <1>4, <1>5, <1>6, StepOfRun DEF IInv, OpenSession

\* A write of a frame, whatever it leaves in the file.
LEMMA FrameBytes ==
  ASSUME IInv, NEW r \in Runs, NEW b \in Contents,
         files' = [files EXCEPT ![run[r].label][run[r].i] = b]
  PROVE  /\ files' \in [Labels -> [1 .. N -> Contents \cup {Nobody}]] /\ FilesKept
         /\ \A k \in 1 .. N : k = run[r].i \/ files[run[r].label][k] \in Contents =>
              files'[run[r].label][k] \in Contents
  <1>1. run[r].label \in Labels /\ run[r].i \in 1 .. N + 1
    BY RunTypes DEF IInv, Places
  <1> QED BY <1>1 DEF IInv, Types, FilesKept

LEMMA OpenFrameStep ==
  ASSUME IInv, NEW r \in Runs, OpenFrame(r)
  PROVE  IInv'
  <1>1. /\ run' \in [Runs -> Places] /\ \A q \in Runs \ {r} : run'[q] = run[q]
        /\ run'[r].phase = "frame" /\ run'[r].label = run[r].label /\ run'[r].i = run[r].i
    BY GotoType DEF IInv, OpenFrame, Phases
  <1>2. files' \in [Labels -> [1 .. N -> Contents \cup {Nobody}]] /\ FilesKept
        /\ \A k \in 1 .. N : files[run[r].label][k] \in Contents =>
             files'[run[r].label][k] \in Contents
    <2>1. Partial \in Contents
      BY DEF Contents
    <2> QED BY <2>1, FrameBytes DEF OpenFrame
  <1>3. Types'
    BY <1>1, <1>2 DEF OpenFrame, IInv, Types, gate, books
  <1>4. (\A x \in Sessions : Kept(x)) /\ GateTruthful'
    BY AllKept DEF IInv, OpenFrame, books
  <1>5. RunInv(r)'
    <2>1. Session(r)' = Session(r)
      BY <1>1 DEF Session
    <2>2. Quiet(Session(r), 0)' /\ (run[r].label = "pass" => Quiet(<<r, "fail">>, 0)')
      BY <2>1 DEF IInv, RunInv, OpenFrame, Quiet, Admitted, gate, books
    <2>3. run[r].i \in 1 .. N + 1 /\ N \in Nat
      BY RunTypes, SessionsAssumption DEF IInv, Places
    <2>4. \A k \in 1 .. run[r].i - 1 : k \in 1 .. N /\ files[run[r].label][k] \in Contents
      <3>1. \A k \in 1 .. run[r].i - 1 : files[run[r].label][k] \in Contents
        BY DEF IInv, RunInv, OpenFrame
      <3> QED BY <2>3, <3>1
    <2>5. \A k \in 1 .. run[r].i - 1 : files'[run[r].label][k] \in Contents
      BY <1>2, <2>4
    <2>6. /\ run'[r].phase = "frame" /\ run'[r].label = run[r].label /\ run'[r].i = run[r].i
          /\ "frame" \notin {"open", "manifest", "submit", "wait", "dump"}
      BY <1>1
    <2> QED BY <2>1, <2>2, <2>5, <2>6 DEF RunInv
  <1>6. passport' = passport /\ report' = report
    BY DEF OpenFrame, books
  <1> QED BY <1>1, <1>2, <1>3, <1>4, <1>5, <1>6, StepOfRun DEF IInv, OpenFrame

\* The next place of a run that has written a frame.
LEMMA NextFrameType ==
  ASSUME IInv, NEW r \in Runs, run[r].phase = "frame", NextFrame(r)
  PROVE  /\ run' \in [Runs -> Places] /\ \A q \in Runs \ {r} : run'[q] = run[q]
         /\ run'[r].label = run[r].label
         /\ run[r].i < N => run'[r].i = run[r].i + 1 /\ run'[r].phase = "write"
         /\ ~(run[r].i < N) => run'[r].i = run[r].i /\ run'[r].phase = "manifest"
  <1>1. /\ run[r] \in Places /\ run[r].i \in 1 .. N + 1 /\ N \in Nat \ {0}
        /\ run \in [Runs -> Places]
    BY RunTypes, SessionsAssumption DEF IInv, Types, Places
  <1>2. CASE run[r].i < N
    <2>1. run[r].i + 1 \in 1 .. N + 1
      BY <1>1, <1>2
    <2> QED BY <1>1, <1>2, <2>1 DEF NextFrame, Places, Phases
  <1>3. CASE ~(run[r].i < N)
    BY <1>3, GotoType DEF NextFrame, IInv, Phases
  <1> QED BY <1>2, <1>3

LEMMA DumpFrameStep ==
  ASSUME IInv, NEW r \in Runs, DumpFrame(r)
  PROVE  IInv'
  <1> DEFINE i == run[r].i
             l == run[r].label
  <1>1. l \in Labels /\ i \in 1 .. N + 1 /\ N \in Nat \ {0} /\ Session(r) \in Sessions
    BY RunTypes, SessionsAssumption DEF IInv, Places
  <1>2. /\ run' \in [Runs -> Places] /\ \A q \in Runs \ {r} : run'[q] = run[q]
        /\ run'[r].label = l
        /\ i < N => run'[r].i = i + 1 /\ run'[r].phase = "write"
        /\ ~(i < N) => run'[r].i = i /\ run'[r].phase = "manifest"
    BY NextFrameType DEF DumpFrame
  <1>3. files' \in [Labels -> [1 .. N -> Contents \cup {Nobody}]] /\ FilesKept
        /\ \A k \in 1 .. N : k = i \/ files[l][k] \in Contents => files'[l][k] \in Contents
    <2>1. Session(r) \in Contents
      BY <1>1 DEF Contents
    <2> QED BY <2>1, FrameBytes DEF DumpFrame
  <1>4. Types'
    BY <1>2, <1>3 DEF DumpFrame, IInv, Types, gate, books
  <1>5. (\A x \in Sessions : Kept(x)) /\ GateTruthful'
    BY AllKept DEF IInv, DumpFrame, books
  <1>6. RunInv(r)'
    <2>1. Session(r)' = Session(r)
      BY <1>2 DEF Session
    <2>2. Quiet(Session(r), 0)' /\ (l = "pass" => Quiet(<<r, "fail">>, 0)')
      BY <2>1 DEF IInv, RunInv, DumpFrame, Quiet, Admitted, gate, books
    <2>3. \A k \in 1 .. i - 1 : files[l][k] \in Contents
      BY DEF IInv, RunInv, DumpFrame
    <2> HIDE DEF i, l
    <2>4. run'[r].phase = "write" => \A k \in 1 .. run'[r].i - 1 : files'[l][k] \in Contents
      BY <2>3, <1>1, <1>2, <1>3
    <2>5. run'[r].phase = "manifest" => \A k \in 1 .. N : files'[l][k] \in Contents
      BY <2>3, <1>1, <1>2, <1>3
    <2>6. run'[r].phase \in {"write", "manifest"}
      BY <1>2
    <2> QED BY <1>2, <2>1, <2>2, <2>4, <2>5, <2>6 DEF RunInv
  <1>7. passport' = passport /\ report' = report
    BY DEF DumpFrame, books
  <1> QED BY <1>2, <1>3, <1>4, <1>5, <1>6, <1>7, StepOfRun DEF IInv, DumpFrame

LEMMA WriteManifestStep ==
  ASSUME IInv, NEW r \in Runs, WriteManifest(r)
  PROVE  IInv'
  <1>1. /\ run[r] \in Places /\ run[r].label \in Labels /\ Session(r) \in Sessions
        /\ run \in [Runs -> Places] /\ 1 \in 1 .. N + 1
    BY RunTypes, SessionsAssumption DEF IInv, Types, Places
  <1>2. /\ run' \in [Runs -> Places] /\ \A q \in Runs \ {r} : run'[q] = run[q]
        /\ run'[r].phase = "submit" /\ run'[r].label = run[r].label /\ run'[r].i = 1
    BY <1>1 DEF WriteManifest, FirstFrame, Places, Phases
  <1>3. Types'
    <2>1. files[run[r].label] \in [1 .. N -> Contents \cup {Nobody}]
      BY <1>1 DEF IInv, Types
    <2>2. [session |-> Session(r), frames |-> files[run[r].label]]
            \in [session : Sessions \cup {Nobody}, frames : [1 .. N -> Contents \cup {Nobody}]]
      BY <1>1, <2>1
    <2>3. manifest' \in [Labels -> [session : Sessions \cup {Nobody},
                                   frames : [1 .. N -> Contents \cup {Nobody}]]]
      BY <2>2 DEF WriteManifest, IInv, Types
    <2> QED BY <1>2, <2>3 DEF WriteManifest, IInv, Types, gate, books
  <1>4. (\A x \in Sessions : Kept(x)) /\ GateTruthful'
    BY AllKept DEF IInv, WriteManifest, books
  <1>5. RunInv(r)'
    <2>1. Session(r)' = Session(r)
      BY <1>2 DEF Session
    <2>2. Quiet(Session(r), 0)' /\ (run[r].label = "pass" => Quiet(<<r, "fail">>, 0)')
      BY <2>1 DEF IInv, RunInv, WriteManifest, Quiet, Admitted, gate, books
    <2>3. \A k \in 1 .. N : files'[run[r].label][k] \in Contents
      BY DEF IInv, RunInv, WriteManifest
    <2> QED BY <1>2, <2>1, <2>2, <2>3 DEF RunInv
  <1>6. FilesKept /\ passport' = passport /\ report' = report
    BY DEF FilesKept, WriteManifest, books
  <1> QED BY <1>2, <1>3, <1>4, <1>5, <1>6, StepOfRun DEF IInv, WriteManifest

\* A frame is sent: it has the number of the submission, and the gate finds what
\* a forced frame was given to find.
LEMMA SubmitStep ==
  ASSUME IInv, NEW r \in Runs, Submit(r)
  PROVE  IInv'
  <1>a. PICK x \in Sessions : x = Session(r)
    BY RunTypes DEF IInv
  <1>b. PICK i \in 1 .. N : i = run[r].i
    BY RunTypes, SessionsAssumption DEF IInv, Places, Submit
  <1>c. PICK entry \in Submissions : entry = [index |-> i, bytes |-> Bytes(r)]
    <2>1. run[r] \in Places /\ run[r].label \in Labels
      BY RunTypes DEF IInv, Places
    <2>2. Bytes(r) \in Contents
      BY <1>a, <1>b, <2>1 DEF Bytes, Contents, IInv, RunInv, Submit
    <2> QED BY <2>2 DEF Submissions
  <1>1. /\ run[r] \in Places /\ run[r].label \in Labels /\ i \in 1 .. N /\ N \in Nat \ {0}
        /\ x \in Sessions /\ <<x, i>> \in Requests /\ run[r].phase = "submit"
    BY <1>a, <1>b, RunTypes, SessionsAssumption DEF IInv, Places, Submit
  <1>2. /\ Len(sent[x]) = i - 1 /\ Len(results[x]) = i - 1 /\ Admitted(x, i - 1)
        /\ outcome[x] = "none"
    BY <1>1, <1>a, <1>b DEF IInv, RunInv, Quiet
  <1>3. /\ run' \in [Runs -> Places] /\ \A q \in Runs \ {r} : run'[q] = run[q]
        /\ run'[r].phase = "wait" /\ run'[r].label = run[r].label /\ run'[r].i = i
    BY <1>b, GotoType DEF IInv, Submit, Phases
  <1>4. PICK psi \in Verdicts(x, i) : Gate!Judge(<<x, Len(sent[x]) + 1>>, psi)
    BY <1>a, <1>b DEF Submit
  <1>5. /\ psi \in {"psi0", "psi1"} /\ (Forced(x, i) => psi = "psi0")
        /\ Gate!Judge(<<x, i>>, psi)
    <2>1. Len(sent[x]) + 1 = i
      BY <1>1, <1>2
    <2>2. psi \in {"psi0", "psi1"} /\ (Forced(x, i) => psi = "psi0")
      BY <1>4 DEF Verdicts
    <2> QED BY <1>4, <2>1, <2>2
  <1>6. /\ judged' \in [Requests -> {"no", "psi0", "psi1"}]
        /\ registered' = registered /\ reply' = reply
        /\ judged'[<<x, i>>] = psi /\ \A p \in Requests \ {<<x, i>>} : judged'[p] = judged[p]
        /\ GateTruthful'
    BY <1>1, <1>5, JudgeStep DEF IInv
  <1>8. sent' = [sent EXCEPT ![x] = Append(sent[x], entry)] /\ sent \in [Sessions -> Seq(Submissions)]
    BY <1>a, <1>b, <1>c DEF Submit, IInv, Types
  <1>9. /\ sent' \in [Sessions -> Seq(Submissions)]
        /\ \A y \in Sessions \ {x} : sent'[y] = sent[y]
        /\ sent'[x] = Append(sent[x], entry)
    BY <1>1, <1>8
  <1>10. /\ Len(sent'[x]) = i /\ sent'[x][i] = entry
         /\ \A k \in 1 .. i - 1 : sent'[x][k] = sent[x][k]
    BY <1>1, <1>2, <1>8, <1>9
  <1>11. Types'
    BY <1>3, <1>6, <1>9 DEF Submit, IInv, Types, Submissions, disk, books
  <1>12. \A y \in Sessions \ {x} : Kept(y)
    BY <1>6, <1>9 DEF Submit, Kept, books, Requests
  <1>13. SessionInv(x)'
    <2>0. SessionInv(x)
      BY DEF IInv
    <2>1. \A k \in 1 .. i - 1 : judged'[<<x, k>>] = judged[<<x, k>>]
      BY <1>1, <1>6 DEF Requests
    <2>2. \A k : Forced(x, k)' = Forced(x, k)
      BY DEF Forced, Submit
    <2>3. \A k \in 1 .. i : /\ sent'[x][k].index = k
                            /\ Forced(x, k)' => judged'[<<x, k>>] = "psi0"
      <3>1. \A k \in 1 .. i - 1 : sent[x][k].index = k /\ (Forced(x, k) => judged[<<x, k>>] = "psi0")
        BY <1>1, <1>2, <2>0 DEF SessionInv
      <3>2. sent'[x][i].index = i /\ (Forced(x, i)' => judged'[<<x, i>>] = "psi0")
        BY <1>5, <1>6, <1>10, <1>c, <2>2
      <3> QED BY <1>1, <1>10, <2>1, <2>2, <3>1, <3>2
    <2>4. \A k \in 1 .. N : k > i => judged'[<<x, k>>] = "no" /\ reply'[<<x, k>>] = "none"
      <3>1. \A k \in 1 .. N : k > i - 1 => judged[<<x, k>>] = "no" /\ reply[<<x, k>>] = "none"
        BY <1>1, <1>2, <2>0 DEF SessionInv
      <3>2. \A k \in 1 .. N : k > i => judged'[<<x, k>>] = judged[<<x, k>>]
        BY <1>1, <1>6 DEF Requests
      <3> QED BY <1>1, <1>6, <3>1, <3>2
    <2>5. \A k \in 1 .. Len(results'[x]) : results'[x][k] = <<x, k>>
      BY <2>0 DEF SessionInv, Submit, books
    <2>6. Len(results'[x]) = i - 1 /\ outcome'[x] = "none" /\ Admitted(x, i - 1)'
      BY <1>2, <1>6 DEF Submit, books, Admitted
    <2> QED BY <1>1, <1>10, <2>3, <2>4, <2>5, <2>6 DEF SessionInv
  <1>14. outcome[x] = "none" /\ ~Complete(x)
    BY <1>1, <1>2 DEF Complete
  <1>15. RunInv(r)'
    <2>1. Session(r)' = x
      BY <1>a, <1>3 DEF Session
    <2>2. Len(results'[x]) = i - 1 /\ outcome'[x] = "none"
      BY <1>2 DEF Submit, books
    <2>3. run[r].label = "pass" => Quiet(<<r, "fail">>, 0)'
      <3>1. run[r].label = "pass" => Quiet(<<r, "fail">>, 0)
        BY <1>1 DEF IInv, RunInv
      <3>2. run[r].label = "pass" => Kept(<<r, "fail">>)
        BY <1>a, <1>12 DEF Sessions, Labels, Session
      <3> QED BY <3>1, <3>2 DEF Quiet, Kept, Admitted
    <2>4. \A k \in 1 .. N : files'[run[r].label][k] \in Contents
      BY <1>1 DEF IInv, RunInv, Submit, disk
    <2> QED BY <1>1, <1>3, <1>10, <2>1, <2>2, <2>3, <2>4 DEF RunInv
  <1>16. FilesKept /\ passport' = passport /\ report' = report
    BY DEF FilesKept, Submit, disk, books
  <1> QED BY <1>a, <1>3, <1>6, <1>11, <1>12, <1>13, <1>14, <1>15, <1>16, StepOfRun DEF IInv, Submit

\* A run that waits: for the submission with the number of its frame.
LEMMA Waiting ==
  ASSUME IInv, NEW r \in Runs, run[r].phase = "wait"
  PROVE  \E x \in Sessions, i \in 1 .. N :
           /\ x = Session(r) /\ i = run[r].i /\ Pending(r) = <<x, i>> /\ <<x, i>> \in Requests
           /\ Len(sent[x]) = i /\ Len(results[x]) = i - 1 /\ outcome[x] = "none"
           /\ Admitted(x, i - 1) /\ SessionInv(x)
           /\ \A k \in 1 .. i - 1 : results[x][k] = <<x, k>>
  <1>1. PICK x \in Sessions : x = Session(r)
    BY RunTypes DEF IInv
  <1>2. PICK i \in 1 .. N : i = run[r].i
    <2>1. run[r].i \in 1 .. N
      <3>1. run[r].i \in 1 .. N + 1
        BY RunTypes DEF IInv, Places
      <3>2. run[r].i <= N
        BY DEF IInv, RunInv
      <3> QED BY <3>1, <3>2, SessionsAssumption
    <2> QED BY <2>1
  <1>3. Len(sent[x]) = i /\ Len(results[x]) = i - 1 /\ outcome[x] = "none" /\ SessionInv(x)
    BY <1>1, <1>2 DEF IInv, RunInv
  <1>4. Admitted(x, i - 1) /\ \A k \in 1 .. i - 1 : results[x][k] = <<x, k>>
    BY <1>3 DEF SessionInv
  <1>5. Pending(r) = <<x, i>> /\ <<x, i>> \in Requests
    <2>1. Pending(r) = <<x, Len(sent[x])>>
      BY <1>1 DEF Pending
    <2>2. <<x, i>> \in Requests
      BY DEF Requests
    <2> QED BY <1>3, <2>1, <2>2
  <1> QED BY <1>1, <1>2, <1>3, <1>4, <1>5

\* A session that is over, in the place of the run.
LEMMA ProceedInv ==
  ASSUME IInv, NEW r \in Runs, Proceed(r),
         run[r].phase \notin {"aborted", "criteria", "done"},
         \A x \in Sessions : x # Session(r) => Kept(x)
  PROVE  RunInv(r)'
  <1>1. CASE run[r].label = "pass"
    <2>1. run'[r].phase = "open" /\ run'[r].label = "fail" /\ run'[r].i = 1
      BY <1>1, ProceedType DEF IInv
    <2>2. <<r, "fail">> \in Sessions /\ <<r, "fail">> # Session(r)
      BY <1>1 DEF Sessions, Labels, Session
    <2>3. Quiet(<<r, "fail">>, 0)
      BY <1>1 DEF IInv, RunInv
    <2>4. Quiet(<<r, "fail">>, 0)'
      BY <2>2, <2>3 DEF Quiet, Kept, Admitted
    <2>5. Session(r)' = <<r, "fail">>
      BY <2>1 DEF Session
    <2> QED BY <2>1, <2>4, <2>5 DEF RunInv
  <1>2. CASE run[r].label # "pass"
    BY <1>2, ProceedType DEF IInv, RunInv
  <1> QED BY <1>1, <1>2

\* The answer a run waits for has arrived, and is one more result.
LEMMA ApprovedStep ==
  ASSUME IInv, NEW r \in Runs, Approved(r)
  PROVE  IInv'
  <1>1. PICK x \in Sessions, i \in 1 .. N :
           /\ x = Session(r) /\ i = run[r].i /\ Pending(r) = <<x, i>> /\ <<x, i>> \in Requests
           /\ Len(sent[x]) = i /\ Len(results[x]) = i - 1 /\ outcome[x] = "none"
           /\ Admitted(x, i - 1) /\ SessionInv(x)
           /\ \A k \in 1 .. i - 1 : results[x][k] = <<x, k>>
    BY Waiting DEF Approved
  <1>2. /\ reply' \in [Requests -> Gate!Replies] /\ registered' = registered /\ judged' = judged
        /\ reply'[<<x, i>>] = "admitted"
        /\ \A p \in Requests \ {<<x, i>>} : reply'[p] = reply[p]
        /\ GateTruthful'
    BY <1>1, AnswerStep DEF IInv, Approved
  <1>3. /\ run' \in [Runs -> Places] /\ \A q \in Runs \ {r} : run'[q] = run[q]
        /\ run'[r].phase = "submit" /\ run'[r].label = run[r].label /\ run'[r].i = i + 1
    <2>1. i + 1 \in 1 .. N + 1
      BY SessionsAssumption
    <2> QED BY <1>1, <2>1 DEF Approved, IInv, Types, Places, Phases
  <1>4. /\ results' \in [Sessions -> Seq(Requests)]
        /\ results'[x] = Append(results[x], <<x, i>>)
        /\ \A y \in Sessions \ {x} : results'[y] = results[y]
    BY <1>1 DEF Approved, Keep, IInv, Types
  <1>5. /\ results[x] \in Seq(Requests) /\ Len(results'[x]) = i
        /\ \A k \in 1 .. i : results'[x][k] = <<x, k>>
    <2>1. results[x] \in Seq(Requests)
      BY DEF IInv, Types
    <2> QED BY <1>1, <1>4, <2>1
  <1>6. Types'
    BY <1>2, <1>3, <1>4 DEF Approved, IInv, Types, disk
  <1>7. \A y \in Sessions \ {x} : Kept(y)
    BY <1>2, <1>4 DEF Approved, Kept, Requests
  <1>8. \A k \in 1 .. i : reply'[<<x, k>>] = "admitted"
    <2>1. \A k \in 1 .. i - 1 : <<x, k>> \in Requests \ {<<x, i>>}
      BY SessionsAssumption DEF Requests
    <2>2. \A k \in 1 .. i - 1 : reply[<<x, k>>] = "admitted"
      BY <1>1 DEF Admitted
    <2>3. \A k \in 1 .. i : k = i \/ k \in 1 .. i - 1
      BY SessionsAssumption
    <2> QED BY <1>2, <2>1, <2>2, <2>3
  <1>9. SessionInv(x)'
    <2>1. \A k \in 1 .. N : k > i => <<x, k>> \in Requests \ {<<x, i>>}
      BY DEF Requests
    <2>2. \A k \in 1 .. N : k > i => judged'[<<x, k>>] = "no" /\ reply'[<<x, k>>] = "none"
      BY <1>1, <1>2, <2>1 DEF SessionInv
    <2>3. \A k \in 1 .. i : sent'[x][k].index = k /\ (Forced(x, k)' => judged'[<<x, k>>] = "psi0")
      BY <1>1, <1>2 DEF SessionInv, Approved, Forced
    <2>4. Len(sent'[x]) = i /\ outcome'[x] = "none" /\ N \in Nat
      BY <1>1, SessionsAssumption DEF Approved
    <2> QED BY <1>5, <1>8, <2>2, <2>3, <2>4 DEF SessionInv, Admitted
  <1>10. Complete(x) => Complete(x)'
    BY <1>1, <1>8 DEF Complete, Admitted, Approved
  <1>11. RunInv(r)'
    <2>1. Session(r)' = x
      BY <1>1, <1>3 DEF Session
    <2>2. Quiet(x, i)'
      BY <1>1, <1>5, <1>8 DEF Quiet, Admitted, Approved
    <2>3. i + 1 - 1 = i
      OBVIOUS
    <2>4. \A k \in 1 .. N : files'[run[r].label][k] \in Contents
      BY DEF IInv, RunInv, Approved, disk
    <2>5. run[r].label = "pass" => Quiet(<<r, "fail">>, 0)'
      <3>1. run[r].label = "pass" => Quiet(<<r, "fail">>, 0)
        BY DEF IInv, RunInv, Approved
      <3>2. run[r].label = "pass" => Kept(<<r, "fail">>)
        BY <1>1, <1>7 DEF Sessions, Labels, Session
      <3> QED BY <3>1, <3>2 DEF Quiet, Kept, Admitted
    <2> QED BY <1>3, <2>1, <2>2, <2>3, <2>4, <2>5 DEF RunInv
  <1>12. FilesKept /\ passport' = passport /\ report' = report
    BY DEF FilesKept, Approved, disk
  <1> QED BY <1>1, <1>2, <1>3, <1>6, <1>7, <1>9, <1>10, <1>11, <1>12, StepOfRun DEF IInv, Approved

\* The answer is a refusal: the last submission of the session.
LEMMA RejectedStep ==
  ASSUME IInv, NEW r \in Runs, Rejected(r)
  PROVE  IInv'
  <1>1. PICK x \in Sessions, i \in 1 .. N :
           /\ x = Session(r) /\ i = run[r].i /\ Pending(r) = <<x, i>> /\ <<x, i>> \in Requests
           /\ Len(sent[x]) = i /\ Len(results[x]) = i - 1 /\ outcome[x] = "none"
           /\ Admitted(x, i - 1) /\ SessionInv(x)
           /\ \A k \in 1 .. i - 1 : results[x][k] = <<x, k>>
    BY Waiting DEF Rejected
  <1>2. /\ reply' \in [Requests -> Gate!Replies] /\ registered' = registered /\ judged' = judged
        /\ reply'[<<x, i>>] = "refused"
        /\ \A p \in Requests \ {<<x, i>>} : reply'[p] = reply[p]
        /\ GateTruthful'
    BY <1>1, AnswerStep DEF IInv, Rejected
  <1>3. run' \in [Runs -> Places] /\ \A q \in Runs \ {r} : run'[q] = run[q]
    BY ProceedType DEF IInv, Rejected
  <1>4. /\ results' \in [Sessions -> Seq(Requests)]
        /\ results'[x] = Append(results[x], <<x, i>>)
        /\ \A y \in Sessions \ {x} : results'[y] = results[y]
        /\ results[x] \in Seq(Requests)
    BY <1>1 DEF Rejected, Keep, IInv, Types
  <1>5. Len(results'[x]) = i /\ \A k \in 1 .. i : results'[x][k] = <<x, k>>
    BY <1>1, <1>4
  <1>6. /\ outcome' \in [Sessions -> Outcomes] /\ outcome'[x] = "rejected"
        /\ \A y \in Sessions \ {x} : outcome'[y] = outcome[y]
    BY <1>1 DEF Rejected, IInv, Types, Outcomes
  <1>7. Types'
    BY <1>2, <1>3, <1>4, <1>6 DEF Rejected, IInv, Types, disk
  <1>8. \A y \in Sessions \ {x} : Kept(y)
    BY <1>2, <1>4, <1>6 DEF Rejected, Kept, Requests
  <1>9. SessionInv(x)'
    <2>1. \A k \in 1 .. N : k > i => <<x, k>> \in Requests \ {<<x, i>>}
      BY DEF Requests
    <2>2. \A k \in 1 .. N : k > i => judged'[<<x, k>>] = "no" /\ reply'[<<x, k>>] = "none"
      BY <1>1, <1>2, <2>1 DEF SessionInv
    <2>3. \A k \in 1 .. i : sent'[x][k].index = k /\ (Forced(x, k)' => judged'[<<x, k>>] = "psi0")
      BY <1>1, <1>2 DEF SessionInv, Rejected, Forced
    <2>4. Len(sent'[x]) = i /\ N \in Nat
      BY <1>1, SessionsAssumption DEF Rejected
    <2>5. \A k \in 1 .. i - 1 : reply'[<<x, k>>] = "admitted"
      <3>1. \A k \in 1 .. i - 1 : <<x, k>> \in Requests \ {<<x, i>>}
        BY <2>4 DEF Requests
      <3> QED BY <1>1, <1>2, <3>1 DEF Admitted
    <2> QED BY <1>2, <1>5, <1>6, <2>2, <2>3, <2>4, <2>5 DEF SessionInv, Admitted
  <1>10. ~Complete(x)
    <2>1. ASSUME Complete(x) PROVE reply[<<x, i>>] = "admitted"
      BY <1>1, <2>1 DEF Complete, Admitted
    <2>2. reply[<<x, i>>] = "none"
      BY <1>1 DEF Rejected, Gate!Answer
    <2> QED BY <2>1, <2>2
  <1>11. RunInv(r)'
    BY <1>1, <1>8, ProceedInv DEF Rejected
  <1>12. FilesKept /\ passport' = passport /\ report' = report
    BY DEF FilesKept, Rejected, disk
  <1> QED BY <1>1, <1>2, <1>3, <1>7, <1>8, <1>9, <1>10, <1>11, <1>12, StepOfRun DEF IInv, Rejected

\* No answer: the last submission too, and one more than there are results.
LEMMA CommErrorStep ==
  ASSUME IInv, NEW r \in Runs, CommError(r)
  PROVE  IInv'
  <1>1. PICK x \in Sessions, i \in 1 .. N :
           /\ x = Session(r) /\ i = run[r].i /\ Pending(r) = <<x, i>> /\ <<x, i>> \in Requests
           /\ Len(sent[x]) = i /\ Len(results[x]) = i - 1 /\ outcome[x] = "none"
           /\ Admitted(x, i - 1) /\ SessionInv(x)
           /\ \A k \in 1 .. i - 1 : results[x][k] = <<x, k>>
    BY Waiting DEF CommError
  <1>2. /\ reply' \in [Requests -> Gate!Replies] /\ registered' = registered /\ judged' = judged
        /\ \A p \in Requests \ {<<x, i>>} : reply'[p] = reply[p]
        /\ GateTruthful'
    BY <1>1, AbandonStep DEF IInv, CommError
  <1>3. run' \in [Runs -> Places] /\ \A q \in Runs \ {r} : run'[q] = run[q]
    BY ProceedType DEF IInv, CommError
  <1>4. faults' \in 0 .. MaxFaults
    BY SessionsAssumption DEF CommError, IInv, Types
  <1>6. /\ outcome' \in [Sessions -> Outcomes] /\ outcome'[x] = "comm_error"
        /\ \A y \in Sessions \ {x} : outcome'[y] = outcome[y]
    BY <1>1 DEF CommError, IInv, Types, Outcomes
  <1>7. Types'
    BY <1>2, <1>3, <1>4, <1>6 DEF CommError, IInv, Types, disk
  <1>8. \A y \in Sessions \ {x} : Kept(y)
    BY <1>2, <1>6 DEF CommError, Kept, Requests
  <1>9. SessionInv(x)'
    <2>1. \A k \in 1 .. N : k > i => <<x, k>> \in Requests \ {<<x, i>>}
      BY DEF Requests
    <2>2. \A k \in 1 .. N : k > i => judged'[<<x, k>>] = "no" /\ reply'[<<x, k>>] = "none"
      BY <1>1, <1>2, <2>1 DEF SessionInv
    <2>3. \A k \in 1 .. i : sent'[x][k].index = k /\ (Forced(x, k)' => judged'[<<x, k>>] = "psi0")
      BY <1>1, <1>2 DEF SessionInv, CommError, Forced
    <2>4. /\ Len(sent'[x]) = i /\ N \in Nat /\ Len(results'[x]) = i - 1
          /\ \A k \in 1 .. i - 1 : results'[x][k] = <<x, k>>
      BY <1>1, SessionsAssumption DEF CommError
    <2>5. \A k \in 1 .. i - 1 : reply'[<<x, k>>] = "admitted"
      <3>1. \A k \in 1 .. i - 1 : <<x, k>> \in Requests \ {<<x, i>>}
        BY <2>4 DEF Requests
      <3> QED BY <1>1, <1>2, <3>1 DEF Admitted
    <2> QED BY <1>6, <2>2, <2>3, <2>4, <2>5 DEF SessionInv, Admitted
  <1>10. ~Complete(x)
    <2>1. Complete(x) => Len(sent[x]) = N /\ Admitted(x, N)
      BY DEF Complete
    <2>2. Complete(x) => reply[<<x, i>>] = "admitted"
      BY <1>1, <2>1 DEF Admitted
    <2>3. reply[<<x, i>>] = "none"
      BY <1>1 DEF CommError, Gate!Abandon
    <2> QED BY <2>2, <2>3
  <1>11. RunInv(r)'
    BY <1>1, <1>8, ProceedInv DEF CommError
  <1>12. FilesKept /\ passport' = passport /\ report' = report
    BY DEF FilesKept, CommError, disk
  <1> QED BY <1>1, <1>2, <1>3, <1>7, <1>8, <1>9, <1>10, <1>11, <1>12, StepOfRun DEF IInv, CommError

\* The passport of another directory, and that of this one once it is written.
LEMMA PassportStep ==
  ASSUME IInv, NEW r \in Runs, NEW x \in Sessions, x = Session(r), NEW f \in Seq(Requests),
         passport' = [passport EXCEPT ![run[r].label] = [session |-> x, frames |-> f]],
         f # <<>> => Len(f) = N /\ \A i \in 1 .. N : f[i] = <<x, i>>,
         Complete(x)'
  PROVE  /\ \A l \in Labels : passport'[l] = passport[l] \/ PassportInv(l)'
         /\ \A l \in Labels : /\ passport'[l].session \in Sessions \cup {Nobody}
                              /\ passport'[l].frames \in Seq(Requests)
  <1>1. x[2] = run[r].label /\ run[r].label \in Labels
    BY RunTypes DEF IInv, Places
  <1>2. DOMAIN passport = Labels
    BY DEF IInv, Types
  <1>3. \A l \in Labels : IF l = run[r].label THEN passport'[l] = [session |-> x, frames |-> f]
                                             ELSE passport'[l] = passport[l]
    BY <1>2
  <1>4. \A l \in Labels : /\ passport'[l].session \in Sessions \cup {Nobody}
                         /\ passport'[l].frames \in Seq(Requests)
    BY <1>3 DEF IInv, Types
  <1>5. \A l \in Labels : l = run[r].label => PassportInv(l)'
    BY <1>1, <1>3 DEF PassportInv
  <1> QED BY <1>3, <1>4, <1>5

\* A passport is opened once every frame was admitted.
LEMMA OpenPassportStep ==
  ASSUME IInv, NEW r \in Runs, OpenPassport(r)
  PROVE  IInv'
  <1>1. PICK x \in Sessions : x = Session(r)
    BY RunTypes DEF IInv
  <1>2. Quiet(x, N)
    <2>1. run[r].i = N + 1
      BY RunTypes, SessionsAssumption DEF IInv, Places, OpenPassport
    <2>2. Quiet(x, run[r].i - 1)
      BY <1>1 DEF IInv, RunInv, OpenPassport
    <2>3. run[r].i - 1 = N
      BY <2>1, SessionsAssumption
    <2> QED BY <2>2, <2>3
  <1>3. /\ run' \in [Runs -> Places] /\ \A q \in Runs \ {r} : run'[q] = run[q]
        /\ run'[r].phase = "dump" /\ run'[r].label = run[r].label
    BY GotoType DEF IInv, OpenPassport, Phases
  <1>4. (\A y \in Sessions : Kept(y)) /\ GateTruthful'
    BY AllKept DEF IInv, OpenPassport, books
  <1>5. Complete(x)'
    BY <1>2 DEF Complete, Quiet, Admitted, OpenPassport, gate
  <1>6. /\ \A l \in Labels : passport'[l] = passport[l] \/ PassportInv(l)'
        /\ \A l \in Labels : /\ passport'[l].session \in Sessions \cup {Nobody}
                             /\ passport'[l].frames \in Seq(Requests)
    <2>1. <<>> \in Seq(Requests)
      OBVIOUS
    <2>2. passport' = [passport EXCEPT ![run[r].label] = [session |-> x, frames |-> <<>>]]
      BY <1>1 DEF OpenPassport, Torn
    <2> QED BY <1>1, <1>5, <2>1, <2>2, PassportStep
  <1>7. Types'
    BY <1>3, <1>6 DEF OpenPassport, IInv, Types, gate, books
  <1>8. RunInv(r)'
    <2>1. Session(r)' = x
      BY <1>1, <1>3 DEF Session
    <2>2. Quiet(x, N)'
      BY <1>2 DEF Quiet, Admitted, OpenPassport, gate, books
    <2>3. run[r].label = "pass" => Quiet(<<r, "fail">>, 0)'
      BY DEF IInv, RunInv, OpenPassport, Quiet, Admitted, gate, books
    <2> QED BY <1>3, <2>1, <2>2, <2>3 DEF RunInv
  <1>9. FilesKept /\ report' = report
    BY DEF FilesKept, OpenPassport, books
  <1> QED BY <1>3, <1>4, <1>6, <1>7, <1>8, <1>9, StepOfRun DEF IInv, OpenPassport

\* The session is certified.
LEMMA DumpPassportStep ==
  ASSUME IInv, NEW r \in Runs, DumpPassport(r)
  PROVE  IInv'
  <1>1. PICK x \in Sessions : x = Session(r)
    BY RunTypes DEF IInv
  <1>2. Quiet(x, N) /\ SessionInv(x)
    BY <1>1 DEF IInv, RunInv, DumpPassport
  <1>3. /\ run' \in [Runs -> Places] /\ \A q \in Runs \ {r} : run'[q] = run[q]
        /\ \/ run'[r].phase = "validate" /\ run'[r].label = run[r].label
           \/ Proceed(r)
    BY GotoType, ProceedType DEF IInv, DumpPassport, Phases
  <1>4. /\ outcome' \in [Sessions -> Outcomes] /\ outcome'[x] = "certified"
        /\ \A y \in Sessions \ {x} : outcome'[y] = outcome[y]
    BY <1>1 DEF DumpPassport, IInv, Types, Outcomes
  <1>5. (\A y \in Sessions \ {x} : Kept(y)) /\ GateTruthful'
    BY <1>4 DEF IInv, GateTruthful, Kept, DumpPassport, gate
  <1>6. Complete(x)'
    BY <1>2 DEF Complete, Quiet, Admitted, DumpPassport, gate
  <1>7. results[x] \in Seq(Requests) /\ Len(results[x]) = N /\ \A i \in 1 .. N : results[x][i] = <<x, i>>
    BY <1>2 DEF IInv, Types, Quiet, SessionInv
  <1>8. /\ \A l \in Labels : passport'[l] = passport[l] \/ PassportInv(l)'
        /\ \A l \in Labels : /\ passport'[l].session \in Sessions \cup {Nobody}
                             /\ passport'[l].frames \in Seq(Requests)
    <2>1. passport' = [passport EXCEPT ![run[r].label] = [session |-> x, frames |-> results[x]]]
      BY <1>1 DEF DumpPassport
    <2>2. PICK f \in Seq(Requests) : f = results[x]
      BY <1>7
    <2> QED BY <1>1, <1>6, <1>7, <2>1, <2>2, PassportStep
  <1>9. Types'
    BY <1>3, <1>4, <1>8 DEF DumpPassport, IInv, Types, gate
  <1>10. SessionInv(x)'
    <2>1. Len(sent[x]) = N /\ Admitted(x, N) /\ N \in Nat \ {0}
      BY <1>2, SessionsAssumption DEF Quiet
    <2>2. \A k \in 1 .. N : sent[x][k].index = k /\ (Forced(x, k) => judged[<<x, k>>] = "psi0")
      BY <1>2, <2>1 DEF SessionInv
    <2>3. UNCHANGED <<judged, reply, sent, results, kind>>
      BY DEF DumpPassport, gate
    <2>4. \A k : Forced(x, k)' = Forced(x, k)
      BY <2>3 DEF Forced
    <2>5. \A k \in 1 .. N : reply'[<<x, k>>] = "admitted"
      BY <2>1, <2>3 DEF Admitted
    <2>6. /\ Len(sent'[x]) = N /\ Len(results'[x]) = N
          /\ \A k \in 1 .. N : results'[x][k] = <<x, k>>
          /\ \A k \in 1 .. N : sent'[x][k].index = k /\ (Forced(x, k)' => judged'[<<x, k>>] = "psi0")
      BY <1>7, <2>1, <2>2, <2>3, <2>4
    <2> QED BY <1>4, <2>1, <2>5, <2>6 DEF SessionInv, Admitted
  <1>11. RunInv(r)'
    <2>1. CASE Proceed(r)
      BY <1>1, <1>5, <2>1, ProceedInv DEF DumpPassport
    <2>2. CASE run'[r].phase = "validate" /\ run'[r].label = run[r].label
      <3>1. run[r].label = "pass" => Quiet(<<r, "fail">>, 0)
        BY DEF IInv, RunInv, DumpPassport
      <3>2. run[r].label = "pass" => Kept(<<r, "fail">>)
        BY <1>1, <1>5 DEF Sessions, Labels, Session
      <3>3. run[r].label = "pass" => Quiet(<<r, "fail">>, 0)'
        BY <3>1, <3>2 DEF Quiet, Kept, Admitted
      <3> QED BY <2>2, <3>3 DEF RunInv
    <2> QED BY <1>3, <2>1, <2>2
  <1>12. FilesKept /\ report' = report
    BY DEF FilesKept, DumpPassport
  <1>13. outcome[x] = "none"
    BY <1>2 DEF Quiet
  <1> QED BY <1>1, <1>3, <1>5, <1>6, <1>8, <1>9, <1>10, <1>11, <1>12, <1>13, StepOfRun
          DEF IInv, DumpPassport

LEMMA ValidatePassportStep ==
  ASSUME IInv, NEW r \in Runs, ValidatePassport(r)
  PROVE  IInv'
  <1>1. run' \in [Runs -> Places] /\ \A q \in Runs \ {r} : run'[q] = run[q]
    BY ProceedType DEF IInv, ValidatePassport
  <1>2. (\A y \in Sessions : Kept(y)) /\ GateTruthful'
    BY AllKept DEF IInv, ValidatePassport
  <1>3. Types'
    BY <1>1 DEF ValidatePassport, IInv, Types, gate, disk
  <1>4. RunInv(r)'
    BY <1>2, ProceedInv DEF ValidatePassport
  <1>5. FilesKept /\ passport' = passport /\ report' = report
    BY DEF FilesKept, ValidatePassport, disk
  <1> QED BY <1>1, <1>2, <1>3, <1>4, <1>5, StepOfRun DEF IInv, ValidatePassport

\* The report says of the sessions what their outcomes say.
LEMMA EvaluateStep ==
  ASSUME IInv, NEW r \in Runs, Evaluate(r)
  PROVE  IInv'
  <1>1. /\ run' \in [Runs -> Places] /\ \A q \in Runs \ {r} : run'[q] = run[q]
        /\ run'[r].phase = "done" /\ run'[r].label = run[r].label
    BY GotoType DEF IInv, Evaluate, Phases
  <1>2. (\A y \in Sessions : Kept(y)) /\ GateTruthful'
    BY AllKept DEF IInv, Evaluate
  <1>3. report' \in [Runs -> Reports] /\ \A q \in Runs \ {r} : report'[q] = report[q]
    BY DEF IInv, Types, Reports, Evaluate
  <1>4. Types'
    BY <1>1, <1>3 DEF Evaluate, IInv, Types, gate, disk
  <1>5. RunInv(r)'
    BY <1>1 DEF RunInv
  <1>6. ReportInv(r)'
    BY DEF Evaluate, ReportInv, PassCriterion, FailCriterion, IInv, Types
  <1>7. FilesKept /\ passport' = passport
    BY DEF FilesKept, Evaluate, disk
  <1> QED BY <1>1, <1>2, <1>3, <1>4, <1>5, <1>6, <1>7, StepOfRun DEF IInv, Evaluate

\* A record that arrives, for somebody who waits for it or for nobody.
LEMMA RegisterStep ==
  ASSUME IInv, NEW q \in Requests, Register(q)
  PROVE  IInv'
  <1>1. UNCHANGED <<judged, reply, kind, run, sent, files, manifest, passport, results, outcome,
                    validated, report, met, faults>>
        /\ registered' = registered \cup {q} /\ judged[q] = "psi1"
    BY DEF Register, Gate!Register, disk, books
  <1>2. Types' /\ GateTruthful'
    BY <1>1 DEF IInv, Types, GateTruthful
  <1>3. \A x \in Sessions : SessionInv(x)'
    <2>1. \A x \in Sessions : Kept(x)
      BY <1>1 DEF Kept
    <2> QED BY <1>1, <2>1, SessionKept DEF IInv
  <1>4. ASSUME NEW r \in Runs PROVE RunInv(r)'
    BY <1>1 DEF IInv, RunInv, Quiet, Admitted, Session
  <1>5. ASSUME NEW l \in Labels PROVE PassportInv(l)'
    BY <1>1 DEF IInv, PassportInv, Complete, Admitted
  <1>6. ASSUME NEW r \in Runs PROVE ReportInv(r)'
    BY <1>1 DEF IInv, ReportInv
  <1> QED BY <1>2, <1>3, <1>4, <1>5, <1>6 DEF IInv

LEMMA InvStep == IInv /\ [Next]_vars => IInv'
  <1> SUFFICES ASSUME IInv, [Next]_vars PROVE IInv'
    OBVIOUS
  <1>1. ASSUME NEW r \in Runs, Unhealthy(r) PROVE IInv'
    BY <1>1, HaltStep DEF Unhealthy, IInv, Types
  <1>2. ASSUME NEW r \in Runs, OpenSession(r) PROVE IInv'
    BY <1>2, OpenSessionStep
  <1>3. ASSUME NEW r \in Runs, OpenFrame(r) \/ DumpFrame(r) PROVE IInv'
    BY <1>3, OpenFrameStep, DumpFrameStep
  <1>4. ASSUME NEW r \in Runs, WriteManifest(r) PROVE IInv'
    BY <1>4, WriteManifestStep
  <1>5. ASSUME NEW r \in Runs, Submit(r) PROVE IInv'
    BY <1>5, SubmitStep
  <1>6. ASSUME NEW r \in Runs, Approved(r) PROVE IInv'
    BY <1>6, ApprovedStep
  <1>7. ASSUME NEW r \in Runs, Rejected(r) PROVE IInv'
    BY <1>7, RejectedStep
  <1>8. ASSUME NEW r \in Runs, CommError(r) PROVE IInv'
    BY <1>8, CommErrorStep
  <1>9. ASSUME NEW r \in Runs, OpenPassport(r) PROVE IInv'
    BY <1>9, OpenPassportStep
  <1>10. ASSUME NEW r \in Runs, DumpPassport(r) PROVE IInv'
    BY <1>10, DumpPassportStep
  <1>11. ASSUME NEW r \in Runs, ValidatePassport(r) PROVE IInv'
    BY <1>11, ValidatePassportStep
  <1>12. ASSUME NEW r \in Runs, FrameUnreadable(r) \/ PassportUnreadable(r) PROVE IInv'
    BY <1>12, HaltStep DEF FrameUnreadable, PassportUnreadable, IInv, Types
  <1>13. ASSUME NEW r \in Runs, Evaluate(r) PROVE IInv'
    BY <1>13, EvaluateStep
  <1>14. ASSUME NEW r \in Runs, Die(r) PROVE IInv'
    <2>1. faults' \in 0 .. MaxFaults
      BY <1>14, SessionsAssumption DEF Die, IInv, Types
    <2> QED BY <1>14, <2>1, HaltStep DEF Die
  <1>15. ASSUME NEW q \in Requests, Register(q) PROVE IInv'
    BY <1>15, RegisterStep
  <1>16. CASE UNCHANGED vars
    <2>1. UNCHANGED <<judged, registered, reply, kind, run, sent, files, manifest, passport, results,
                      outcome, validated, report, met, faults>>
      BY <1>16 DEF vars, gate, disk, books
    <2>2. Types' /\ GateTruthful'
      BY <2>1 DEF IInv, Types, GateTruthful
    <2>3. \A x \in Sessions : SessionInv(x)'
      BY <2>1, SessionKept DEF IInv, Kept
    <2>4. ASSUME NEW r \in Runs PROVE RunInv(r)'
      BY <2>1 DEF IInv, RunInv, Quiet, Admitted, Session
    <2>5. ASSUME NEW l \in Labels PROVE PassportInv(l)'
      BY <2>1 DEF IInv, PassportInv, Complete, Admitted
    <2>6. ASSUME NEW r \in Runs PROVE ReportInv(r)'
      BY <2>1 DEF IInv, ReportInv
    <2> QED BY <2>2, <2>3, <2>4, <2>5, <2>6 DEF IInv
  <1> QED BY <1>1, <1>2, <1>3, <1>4, <1>5, <1>6, <1>7, <1>8, <1>9, <1>10, <1>11, <1>12, <1>13,
             <1>14, <1>15, <1>16 DEF Next, Step

LEMMA InvInit == Init => IInv
  <1> SUFFICES ASSUME Init PROVE IInv
    OBVIOUS
  <1>0. N \in Nat \ {0} /\ MaxFaults \in Nat /\ 1 \in 1 .. N + 1
    BY SessionsAssumption
  <1>1. /\ judged = [q \in Requests |-> "no"] /\ registered = {}
        /\ reply = [q \in Requests |-> "none"]
    BY DEF Init, Gate!Init
  <1>2. Types
    <2>1. Ready \in Places /\ NoManifest \in [session : Sessions \cup {Nobody},
                                             frames : [1 .. N -> Contents \cup {Nobody}]]
      BY <1>0 DEF Ready, Places, Phases, Labels, NoManifest
    <2>2. NoPassport.session = Nobody /\ NoPassport.frames \in Seq(Requests)
      BY DEF NoPassport
    <2>3. \A x \in Sessions : <<>> \in Seq(Submissions) /\ <<>> \in Seq(Requests)
      OBVIOUS
    <2> QED BY <1>0, <1>1, <2>1, <2>2, <2>3 DEF Init, Types, Gate!Replies, Outcomes, Reports
  <1>3. GateTruthful
    BY <1>1 DEF GateTruthful
  <1>4. ASSUME NEW x \in Sessions PROVE SessionInv(x)
    <2>1. sent[x] = <<>> /\ results[x] = <<>> /\ outcome[x] = "none"
      BY DEF Init
    <2>2. \A k \in 1 .. N : judged[<<x, k>>] = "no" /\ reply[<<x, k>>] = "none"
      BY <1>1 DEF Requests
    <2> QED BY <1>0, <2>1, <2>2 DEF SessionInv, Admitted
  <1>5. ASSUME NEW r \in Runs PROVE RunInv(r)
    <2>1. run[r].phase = "open" /\ run[r].i = 1 /\ run[r].label = "pass"
      BY DEF Init, Ready
    <2>2. \A x \in Sessions : Quiet(x, 0)
      BY DEF Init, Quiet, Admitted
    <2>3. Session(r) \in Sessions /\ <<r, "fail">> \in Sessions
      BY <2>1 DEF Session, Sessions, Labels
    <2> QED BY <2>1, <2>2, <2>3 DEF RunInv
  <1>6. ASSUME NEW l \in Labels PROVE PassportInv(l)
    <2>1. passport[l].session = Nobody /\ passport[l].frames = <<>>
      BY DEF Init, NoPassport
    <2>2. Nobody \notin Sessions
      BY DEF Nobody, Sessions, Labels
    <2> QED BY <2>1, <2>2 DEF PassportInv
  <1>7. ASSUME NEW r \in Runs PROVE ReportInv(r)
    BY DEF Init, ReportInv
  <1> QED BY <1>2, <1>3, <1>4, <1>5, <1>6, <1>7 DEF IInv

LEMMA InvHolds == Spec => []IInv
  BY InvInit, InvStep, PTL DEF Spec

-----------------------------------------------------------------------------
(* The theorems *)

\* Every variable keeps its type.
THEOREM TypeCorrect == Spec => []TypeOK
  <1>1. IInv => TypeOK
    <2> SUFFICES ASSUME IInv PROVE TypeOK
      OBVIOUS
    <2>1. ASSUME NEW r \in Runs, run[r].phase = "submit", run[r].i > N
          PROVE  Len(results[Session(r)]) = N
      <3>1. run[r].i = N + 1
        BY <2>1, RunTypes, SessionsAssumption DEF IInv, Places
      <3>2. Len(results[Session(r)]) = run[r].i - 1
        BY <2>1 DEF IInv, RunInv, Quiet
      <3> QED BY <3>1, <3>2, SessionsAssumption
    <2> QED BY <2>1 DEF IInv, Types, TypeOK, Submissions, Places, Reports
  <1> QED BY <1>1, InvHolds, PTL

\* A passport that can be read covers all frames of the session it names, each
\* recorded in the ledger, whoever else writes into the directory.
THEOREM PassportsAreBacked == Spec => []PassportIsBacked
  <1>1. IInv => PassportIsBacked
    <2> SUFFICES ASSUME IInv, NEW l \in Labels, passport[l].frames # <<>>
                 PROVE  /\ Len(passport[l].frames) = N
                        /\ \A i \in 1 .. N : LET q == passport[l].frames[i]
                                             IN  /\ q \in registered
                                                 /\ q[1] = passport[l].session
                                                 /\ sent[q[1]][q[2]].index = i
      BY DEF PassportIsBacked
    <2>1. PICK x \in Sessions : x = passport[l].session
      BY DEF IInv, PassportInv
    <2>2. /\ Complete(x) /\ Len(passport[l].frames) = N
          /\ \A i \in 1 .. N : passport[l].frames[i] = <<x, i>>
      BY <2>1 DEF IInv, PassportInv
    <2>3. SessionInv(x)
      BY DEF IInv
    <2>4. ASSUME NEW i \in 1 .. N PROVE <<x, i>> \in registered /\ sent[x][i].index = i
      <3>1. <<x, i>> \in Requests /\ reply[<<x, i>>] = "admitted" /\ Len(sent[x]) = N
        BY <2>2 DEF Complete, Admitted, Requests
      <3> QED BY <2>3, <3>1 DEF IInv, GateTruthful, SessionInv
    <2>5. ASSUME NEW i \in 1 .. N
          PROVE  /\ passport[l].frames[i] \in registered
                 /\ passport[l].frames[i][1] = passport[l].session
                 /\ sent[passport[l].frames[i][1]][passport[l].frames[i][2]].index = i
      <3>1. passport[l].frames[i] = <<x, i>>
        BY <2>2
      <3>2. <<x, i>>[1] = x /\ <<x, i>>[2] = i
        OBVIOUS
      <3> QED BY <2>1, <2>4, <3>1, <3>2
    <2> QED BY <2>2, <2>5
  <1> QED BY <1>1, InvHolds, PTL

\* A session sends nothing after a frame that was not approved.
THEOREM FailuresAreLast == Spec => []FailureIsLast
  <1>1. IInv => FailureIsLast
    <2> SUFFICES ASSUME IInv, NEW x \in Sessions, NEW k \in 2 .. Len(sent[x])
                 PROVE  reply[<<x, k - 1>>] = "admitted" /\ sent[x][k - 1].index < sent[x][k].index
      BY DEF FailureIsLast
    <2>1. SessionInv(x) /\ Len(sent[x]) \in Nat
      BY DEF IInv, Types
    <2>2. k - 1 \in 1 .. Len(sent[x]) - 1 /\ k - 1 \in 1 .. Len(sent[x]) /\ k \in 1 .. Len(sent[x])
      BY <2>1
    <2>3. sent[x][k - 1].index = k - 1 /\ sent[x][k].index = k
      BY <2>1, <2>2 DEF SessionInv
    <2>4. reply[<<x, k - 1>>] = "admitted"
      BY <2>1, <2>2 DEF SessionInv, Admitted
    <2> QED BY <2>2, <2>3, <2>4
  <1> QED BY <1>1, InvHolds, PTL

\* What is recorded of a session was sent by it.
LEMMA RecordsWereSent ==
  ASSUME IInv, NEW x \in Sessions, NEW q \in RecordsOf(x)
  PROVE  \E k \in 1 .. Len(sent[x]) : q = <<x, k>> /\ ~Forced(x, k) /\ judged[q] = "psi1"
  <1>1. PICK k \in 1 .. N : q = <<x, k>>
    BY DEF RecordsOf, IInv, Types, Requests
  <1>2. judged[<<x, k>>] = "psi1"
    BY <1>1 DEF RecordsOf, IInv, GateTruthful
  <1>3. SessionInv(x) /\ Len(sent[x]) \in Nat
    BY DEF IInv, Types
  <1>4. k \in 1 .. Len(sent[x])
    BY <1>2, <1>3, SessionsAssumption DEF SessionInv
  <1>5. ~Forced(x, k)
    BY <1>2, <1>3, <1>4 DEF SessionInv
  <1> QED BY <1>1, <1>2, <1>4, <1>5

\* The first n submissions of a session are n.
LEMMA CountSubmissions ==
  ASSUME NEW x, NEW n \in Nat
  PROVE  /\ IsFiniteSet({<<x, k>> : k \in 1 .. n})
         /\ Cardinality({<<x, k>> : k \in 1 .. n}) = n
  <1> DEFINE S == {<<x, k>> : k \in 1 .. n}
             f == [k \in 1 .. n |-> <<x, k>>]
  <1>1. IsFiniteSet(1 .. n) /\ Cardinality(1 .. n) = n
    BY FS_Interval
  <1>2. f \in Bijection(1 .. n, S)
    <2>1. f \in [1 .. n -> S]
      OBVIOUS
    <2>2. \A a, b \in 1 .. n : f[a] = f[b] => a = b
      OBVIOUS
    <2>3. \A t \in S : \E k \in 1 .. n : f[k] = t
      OBVIOUS
    <2> HIDE DEF S, f
    <2>4. f \in Injection(1 .. n, S)
      BY <2>1, <2>2 DEF Injection, IsInjective
    <2>5. f \in Surjection(1 .. n, S)
      BY <2>1, <2>3 DEF Surjection
    <2> QED BY <2>4, <2>5 DEF Bijection
  <1> QED BY <1>1, <1>2, FS_Bijection DEF ExistsBijection

\* Among the approved results of a session that is over are all its records, but
\* for one whose answer was lost.
THEOREM LedgersAreReported == Spec => []LedgerIsReported
  <1>1. IInv => LedgerIsReported
    <2> SUFFICES ASSUME IInv, NEW x \in Sessions, outcome[x] # "none"
                 PROVE  LET recorded == RecordsOf(x)
                            approved == {q \in {results[x][i] : i \in DOMAIN results[x]} :
                                           reply[q] = "admitted"}
                        IN  /\ approved \subseteq recorded
                            /\ Cardinality(recorded \ approved)
                                 <= IF outcome[x] = "comm_error" THEN 1 ELSE 0
      BY DEF LedgerIsReported
    <2> DEFINE n == Len(sent[x])
               m == Len(results[x])
               approved == {q \in {results[x][i] : i \in DOMAIN results[x]} : reply[q] = "admitted"}
    <2> SUFFICES /\ approved \subseteq RecordsOf(x)
                 /\ Cardinality(RecordsOf(x) \ approved) <= IF outcome[x] = "comm_error" THEN 1 ELSE 0
      OBVIOUS
    <2>1. SessionInv(x) /\ n \in Nat /\ m \in Nat /\ DOMAIN results[x] = 1 .. m /\ n <= N
      <3>1. SessionInv(x) /\ sent[x] \in Seq(Submissions) /\ results[x] \in Seq(Requests)
        BY DEF IInv, Types
      <3>2. Len(sent[x]) <= N
        BY <3>1 DEF SessionInv
      <3> QED BY <3>1, <3>2
    <2>2. \A k \in 1 .. m : results[x][k] = <<x, k>>
      BY <2>1 DEF SessionInv
    <2>7. \A k \in 1 .. m : reply[<<x, k>>] = "admitted" => <<x, k>> \in approved
      <3>1. \A k \in 1 .. m : results[x][k] \in {results[x][i] : i \in DOMAIN results[x]}
        BY <2>1
      <3> QED BY <2>2, <3>1
    <2>8. \A q \in approved : \E k \in 1 .. m : q = <<x, k>> /\ reply[<<x, k>>] = "admitted"
      BY <2>1, <2>2
    <2> HIDE DEF approved
    <2>3. approved \subseteq RecordsOf(x)
      <3>1. m <= n
        BY <2>1 DEF SessionInv
      <3>2. \A k \in 1 .. m : <<x, k>> \in Requests
        BY <2>1, <3>1, SessionsAssumption DEF Requests
      <3>3. \A k \in 1 .. m : reply[<<x, k>>] = "admitted" => <<x, k>> \in RecordsOf(x)
        BY <3>2 DEF RecordsOf, IInv, GateTruthful
      <3> QED BY <2>8, <3>3
    <2>4. ASSUME NEW q \in RecordsOf(x) \ approved
          PROVE  outcome[x] = "comm_error" /\ q = <<x, n>>
      <3>1. PICK k \in 1 .. n : q = <<x, k>> /\ judged[<<x, k>>] = "psi1"
        BY RecordsWereSent
      <3>2. k <= m => reply[<<x, k>>] # "admitted"
        BY <2>1, <2>7, <2>4, <3>1
      <3>3. <<x, k>> \in Requests
        BY <2>1, SessionsAssumption DEF Requests
      <3>4. reply[<<x, k>>] # "refused"
        BY <3>1, <3>3 DEF IInv, GateTruthful
      <3>5. k <= n - 1 => reply[<<x, k>>] = "admitted"
        BY <2>1 DEF SessionInv, Admitted
      <3>6. outcome[x] \in {"certified", "rejected", "comm_error"}
        BY DEF IInv, Types, Outcomes
      <3>7. outcome[x] # "certified"
        <4>1. outcome[x] = "certified" => n = N /\ m = N /\ reply[<<x, k>>] = "admitted"
          BY <2>1 DEF SessionInv, Admitted
        <4> QED BY <2>1, <3>2, <4>1
      <3>8. outcome[x] # "rejected"
        <4>1. outcome[x] = "rejected" => m = n /\ reply[<<x, n>>] = "refused"
          BY <2>1 DEF SessionInv
        <4>2. k = n \/ k <= n - 1
          BY <2>1
        <4> QED BY <2>1, <3>2, <3>4, <3>5, <4>1, <4>2
      <3>9. outcome[x] = "comm_error" /\ m = n - 1
        BY <2>1, <3>6, <3>7, <3>8 DEF SessionInv
      <3>10. k = n
        BY <2>1, <3>2, <3>5, <3>9
      <3> QED BY <3>1, <3>9, <3>10
    <2>5. CASE outcome[x] = "comm_error"
      <3>1. RecordsOf(x) \ approved \subseteq {<<x, n>>}
        BY <2>4
      <3>2. IsFiniteSet({<<x, n>>}) /\ Cardinality({<<x, n>>}) = 1
        BY FS_Singleton
      <3>3. Cardinality(RecordsOf(x) \ approved) <= 1
        BY <3>1, <3>2, FS_Subset
      <3> QED BY <2>3, <2>5, <3>3
    <2>6. CASE outcome[x] # "comm_error"
      <3>1. RecordsOf(x) \ approved = {}
        BY <2>4, <2>6
      <3>2. Cardinality(RecordsOf(x) \ approved) = 0
        BY <3>1, FS_EmptySet
      <3> QED BY <2>3, <2>6, <3>2
    <2> QED BY <2>5, <2>6
  <1> QED BY <1>1, InvHolds, PTL

\* Exit criteria that all pass are true of the ledger and of the passports.
THEOREM ReportsAreTrue == Spec => []ReportIsTrue
  <1>1. IInv => ReportIsTrue
    <2> SUFFICES ASSUME IInv, NEW r \in Runs, report[r] = "all_pass"
                 PROVE  /\ Cardinality(RecordsOf(<<r, "pass">>)) = N
                        /\ Cardinality(RecordsOf(<<r, "fail">>)) < FailAt
                        /\ passport["fail"].session # <<r, "fail">>
      BY DEF ReportIsTrue
    <2>1. PICK p \in Sessions : p = <<r, "pass">>
      BY DEF Sessions, Labels
    <2>2. PICK f \in Sessions : f = <<r, "fail">>
      BY DEF Sessions, Labels
    <2>3. outcome[p] = "certified" /\ outcome[f] \in {"rejected", "comm_error"}
      BY <2>1, <2>2 DEF IInv, ReportInv
    <2>4. SessionInv(p) /\ SessionInv(f) /\ Len(sent[f]) \in Nat
      BY DEF IInv, Types
    <2>5. Cardinality(RecordsOf(p)) = N
      <3>1. Len(sent[p]) = N /\ \A k \in 1 .. N : reply[<<p, k>>] = "admitted"
        BY <2>3, <2>4 DEF SessionInv, Admitted
      <3>2. {<<p, k>> : k \in 1 .. N} \subseteq RecordsOf(p)
        BY <3>1 DEF IInv, GateTruthful, RecordsOf, Requests
      <3>3. RecordsOf(p) \subseteq {<<p, k>> : k \in 1 .. N}
        BY <3>1, RecordsWereSent
      <3>4. RecordsOf(p) = {<<p, k>> : k \in 1 .. N}
        BY <3>2, <3>3
      <3> QED BY <3>4, CountSubmissions, SessionsAssumption
    <2>6. FailAt \in 1 .. N /\ Forced(f, FailAt)
      BY <2>2, SessionsAssumption DEF Forced
    <2>7. FailAt <= Len(sent[f]) => reply[<<f, FailAt>>] # "admitted"
      <3>1. FailAt <= Len(sent[f]) => judged[<<f, FailAt>>] = "psi0"
        BY <2>4, <2>6, SessionsAssumption DEF SessionInv
      <3>2. <<f, FailAt>> \in Requests
        BY <2>6 DEF Requests
      <3> QED BY <3>1, <3>2 DEF IInv, GateTruthful
    <2>8. Len(sent[f]) <= FailAt
      <3>1. \A k \in 1 .. Len(sent[f]) - 1 : reply[<<f, k>>] = "admitted"
        BY <2>4 DEF SessionInv, Admitted
      <3>2. FailAt < Len(sent[f]) => FailAt \in 1 .. Len(sent[f]) - 1
        BY <2>4, SessionsAssumption
      <3> QED BY <2>4, <2>7, <3>1, <3>2, SessionsAssumption
    <2>9. Cardinality(RecordsOf(f)) < FailAt
      <3>1. FailAt - 1 \in Nat
        BY SessionsAssumption
      <3>2. RecordsOf(f) \subseteq {<<f, k>> : k \in 1 .. FailAt - 1}
        <4>1. ASSUME NEW q \in RecordsOf(f)
              PROVE  \E k \in 1 .. FailAt - 1 : q = <<f, k>>
          <5>1. PICK k \in 1 .. Len(sent[f]) : q = <<f, k>> /\ ~Forced(f, k)
            BY RecordsWereSent
          <5>2. k # FailAt
            BY <2>6, <5>1
          <5>3. k \in 1 .. FailAt - 1
            BY <2>4, <2>8, <5>2, SessionsAssumption
          <5> QED BY <5>1, <5>3
        <4> QED BY <4>1
      <3>3. /\ IsFiniteSet({<<f, k>> : k \in 1 .. FailAt - 1})
            /\ Cardinality({<<f, k>> : k \in 1 .. FailAt - 1}) = FailAt - 1
        BY <3>1, CountSubmissions
      <3>4. /\ Cardinality(RecordsOf(f)) <= FailAt - 1 /\ IsFiniteSet(RecordsOf(f))
        BY <3>2, <3>3, FS_Subset
      <3>5. Cardinality(RecordsOf(f)) \in Nat
        BY <3>4, FS_CardinalityType
      <3>6. FailAt \in Nat
        BY SessionsAssumption
      <3>7. \A c \in Nat : c <= FailAt - 1 => c < FailAt
        BY <3>6
      <3> QED BY <3>4, <3>5, <3>7
    <2>10. passport["fail"].session # f
      <3>1. ASSUME passport["fail"].session = f PROVE FALSE
        <4>1. Complete(f)
          BY <3>1 DEF IInv, PassportInv, Labels
        <4>2. FailAt <= Len(sent[f]) /\ reply[<<f, FailAt>>] = "admitted"
          BY <2>6, <4>1, SessionsAssumption DEF Complete, Admitted
        <4> QED BY <2>7, <4>2
      <3> QED BY <3>1
    <2> QED BY <2>1, <2>2, <2>5, <2>9, <2>10
  <1> QED BY <1>1, InvHolds, PTL

-----------------------------------------------------------------------------
(* Sessions that met no other *)

\* Two sessions that are open in one directory at the same time have met.
MeetingsNoted ==
  \A q, r \in Runs :
    q # r /\ Open(q) /\ Open(r) /\ run[q].label = run[r].label => Session(q) \in met[Session(r)]

\* An open session that met no other finds its own files: while it writes them,
\* those before its frame.
OwnFiles(r) ==
  Open(r) /\ met[Session(r)] = {} =>
    \A j \in 1 .. N : (run[r].phase \in {"write", "frame"} => j < run[r].i) =>
      files[run[r].label][j] = Session(r)

\* What it has sent stays its own after it has ended.
OwnBytes(x) == met[x] = {} => \A k \in 1 .. Len(sent[x]) : sent[x][k].bytes = x

\* And so does its manifest, until another session replaces it.
OwnManifest(l) ==
  LET x == manifest[l].session
  IN  x \in Sessions /\ met[x] = {} => \A j \in 1 .. N : manifest[l].frames[j] = x

AloneInv ==
  /\ MeetingsNoted
  /\ \A r \in Runs : OwnFiles(r)
  /\ \A x \in Sessions : OwnBytes(x)
  /\ \A l \in Labels : OwnManifest(l)

LEMMA AloneInit == Init => AloneInv
  <1> SUFFICES ASSUME Init PROVE AloneInv
    OBVIOUS
  <1>1. \A r \in Runs : ~Open(r)
    BY DEF Init, Open, Ready
  <1>2. \A x \in Sessions : OwnBytes(x)
    BY DEF Init, OwnBytes
  <1>3. \A l \in Labels : manifest[l].session \notin Sessions
    BY DEF Init, NoManifest, Nobody, Sessions, Labels
  <1> QED BY <1>1, <1>2, <1>3 DEF AloneInv, MeetingsNoted, OwnFiles, OwnManifest

\* A step that neither opens a session nor writes into the directory nor sends.
LEMMA AloneKept ==
  ASSUME AloneInv, UNCHANGED <<files, manifest, sent, met>>, NEW r \in Runs,
         \A q \in Runs \ {r} : run'[q] = run[q],
         Open(r)' => /\ Open(r) /\ run'[r].label = run[r].label
                     /\ run[r].phase \notin {"write", "frame"}
  PROVE  AloneInv'
  <1>1. ASSUME NEW q \in Runs
        PROVE  Open(q)' => /\ Open(q) /\ run'[q].label = run[q].label /\ Session(q)' = Session(q)
                           /\ run'[q] = run[q] \/ run[q].phase \notin {"write", "frame"}
    BY DEF Open, Session
  <1>2. MeetingsNoted'
    BY <1>1 DEF AloneInv, MeetingsNoted
  <1>3. ASSUME NEW q \in Runs PROVE OwnFiles(q)'
    BY <1>1 DEF AloneInv, OwnFiles
  <1>4. \A x \in Sessions : OwnBytes(x)'
    BY DEF AloneInv, OwnBytes
  <1>5. \A l \in Labels : OwnManifest(l)'
    BY DEF AloneInv, OwnManifest
  <1> QED BY <1>2, <1>3, <1>4, <1>5 DEF AloneInv

\* Whoever opens a session takes note of those it meets, and they of it.
LEMMA AloneOpens ==
  ASSUME IInv, AloneInv, NEW r \in Runs, OpenSession(r)
  PROVE  AloneInv'
  <1>1. /\ \A q \in Runs \ {r} : run'[q] = run[q]
        /\ run'[r].phase = "write" /\ run'[r].label = run[r].label /\ run'[r].i = 1
    BY GotoType DEF IInv, OpenSession, Phases, RunInv
  <1>2. UNCHANGED <<files, manifest, sent>>
    BY DEF OpenSession, disk
  <1>3. \A q \in Runs : Session(q)' = Session(q) /\ Session(q) \in Sessions
    BY <1>1, RunTypes DEF Session, IInv
  <1> DEFINE other == {Session(q) : q \in {q \in Runs \ {r} : Open(q) /\ run[q].label = run[r].label}}
  <1>4. /\ met'[Session(r)] = met[Session(r)] \cup other
        /\ \A x \in other : x # Session(r) /\ met'[x] = met[x] \cup {Session(r)}
        /\ \A x \in Sessions : met[x] \subseteq met'[x]
    <2>1. \A x \in other : x # Session(r) /\ x \in Sessions
      BY <1>3 DEF Session
    <2> QED BY <1>3, <2>1 DEF OpenSession
  <1>5. \A q \in Runs \ {r} : Open(q)' = Open(q)
    BY <1>1 DEF Open
  <1>6. MeetingsNoted'
    <2> SUFFICES ASSUME NEW p \in Runs, NEW q \in Runs, p # q, Open(p)', Open(q)',
                        run'[p].label = run'[q].label
                 PROVE  Session(p) \in met'[Session(q)]
      BY <1>3 DEF MeetingsNoted
    <2>1. CASE q = r
      <3>1. Session(p) \in other
        BY <2>1, <1>1, <1>5
      <3> QED BY <2>1, <3>1, <1>4
    <2>2. CASE p = r
      <3>1. Session(q) \in other
        BY <2>2, <1>1, <1>5
      <3> QED BY <2>2, <3>1, <1>4
    <2>3. CASE p # r /\ q # r
      BY <2>3, <1>1, <1>3, <1>4, <1>5 DEF AloneInv, MeetingsNoted
    <2> QED BY <2>1, <2>2, <2>3
  <1>7. ASSUME NEW q \in Runs PROVE OwnFiles(q)'
    <2>1. CASE q = r
      BY <2>1, <1>1 DEF OwnFiles
    <2>2. CASE q # r
      BY <2>2, <1>1, <1>2, <1>3, <1>4, <1>5 DEF AloneInv, OwnFiles
    <2> QED BY <2>1, <2>2
  <1>8. \A x \in Sessions : OwnBytes(x)'
    BY <1>2, <1>4 DEF AloneInv, OwnBytes
  <1>9. \A l \in Labels : OwnManifest(l)'
    BY <1>2, <1>4 DEF AloneInv, OwnManifest
  <1> QED BY <1>6, <1>7, <1>8, <1>9 DEF AloneInv

\* A frame is opened or written over by a session that is open, which whoever is
\* open in the same directory has met.
LEMMA AloneWrites ==
  ASSUME IInv, AloneInv, NEW r \in Runs, OpenFrame(r) \/ DumpFrame(r)
  PROVE  AloneInv'
  <1> DEFINE l == run[r].label
             i == run[r].i
  <1>1. /\ l \in Labels /\ i \in 1 .. N + 1 /\ N \in Nat
        /\ files \in [Labels -> [1 .. N -> Contents \cup {Nobody}]]
    BY RunTypes, SessionsAssumption DEF IInv, Types, Places
  <1>2. PICK b : /\ files' = [files EXCEPT ![l][i] = b]
                 /\ DumpFrame(r) => b = Session(r)
    BY DEF OpenFrame, DumpFrame
  <1>3. run[r].phase \in {"write", "frame"} /\ UNCHANGED <<manifest, sent, met>>
    BY DEF OpenFrame, DumpFrame
  <1>4. /\ \A q \in Runs \ {r} : run'[q] = run[q]
        /\ run'[r].label = l
        /\ \/ run'[r].phase = "frame" /\ run'[r].i = i
           \/ DumpFrame(r) /\ i < N /\ run'[r].phase = "write" /\ run'[r].i = i + 1
           \/ DumpFrame(r) /\ ~(i < N) /\ run'[r].phase = "manifest"
    <2>1. CASE OpenFrame(r)
      BY <2>1, GotoType DEF OpenFrame, IInv, Phases
    <2>2. CASE DumpFrame(r)
      BY <2>2, NextFrameType DEF DumpFrame
    <2> QED BY <2>1, <2>2
  <1>5. \A q \in Runs : Session(q)' = Session(q) /\ run'[q].label = run[q].label /\ Open(q)' = Open(q)
    BY <1>3, <1>4 DEF Session, Open
  <1>6. MeetingsNoted'
    BY <1>3, <1>5 DEF AloneInv, MeetingsNoted
  <1>7. ASSUME NEW q \in Runs PROVE OwnFiles(q)'
    <2>1. CASE q = r
      <3>1. ASSUME met[Session(r)] = {}, NEW j \in 1 .. N,
                   run'[r].phase \in {"write", "frame"} => j < run'[r].i
            PROVE  files'[l][j] = Session(r)
        <4>1. j < i \/ (j = i /\ DumpFrame(r))
          BY <3>1, <1>1, <1>4
        <4>2. j < i => files[l][j] = Session(r)
          BY <3>1, <1>3 DEF AloneInv, OwnFiles, Open
        <4> QED BY <4>1, <4>2, <1>1, <1>2
      <3> QED BY <2>1, <3>1, <1>3, <1>5 DEF OwnFiles
    <2>2. CASE q # r /\ run[q].label # l
      <3>1. files'[run[q].label] = files[run[q].label]
        BY <2>2, <1>1, <1>2
      <3> QED BY <2>2, <3>1, <1>3, <1>4, <1>5 DEF AloneInv, OwnFiles
    <2>3. CASE q # r /\ run[q].label = l
      <3>1. Open(q) => Session(r) \in met[Session(q)]
        BY <2>3, <1>3 DEF AloneInv, MeetingsNoted, Open
      <3> QED BY <3>1, <1>3, <1>5 DEF OwnFiles
    <2> QED BY <2>1, <2>2, <2>3
  <1>8. (\A x \in Sessions : OwnBytes(x)') /\ \A k \in Labels : OwnManifest(k)'
    BY <1>3 DEF AloneInv, OwnBytes, OwnManifest
  <1> QED BY <1>6, <1>7, <1>8 DEF AloneInv

LEMMA AloneListsFiles ==
  ASSUME IInv, AloneInv, NEW r \in Runs, WriteManifest(r)
  PROVE  AloneInv'
  <1> DEFINE l == run[r].label
  <1>1. /\ run \in [Runs -> Places] /\ run[r] \in Places /\ l \in Labels
        /\ DOMAIN manifest = Labels
    BY RunTypes DEF IInv, Types, Places
  <1>2. /\ run[r].phase = "manifest" /\ UNCHANGED <<files, sent, met>>
        /\ manifest' = [manifest EXCEPT ![l] = [session |-> Session(r), frames |-> files[l]]]
    BY DEF WriteManifest
  <1>3. /\ \A q \in Runs \ {r} : run'[q] = run[q]
        /\ run'[r].label = l /\ run'[r].phase = "submit"
    BY <1>1 DEF WriteManifest, FirstFrame, Places
  <1>4. \A q \in Runs : /\ Session(q)' = Session(q) /\ run'[q].label = run[q].label
                        /\ Open(q)' = Open(q)
                        /\ run'[q].phase \in {"write", "frame"} => run'[q] = run[q]
    BY <1>2, <1>3 DEF Session, Open
  <1>5. MeetingsNoted' /\ \A x \in Sessions : OwnBytes(x)'
    BY <1>2, <1>4 DEF AloneInv, MeetingsNoted, OwnBytes
  <1>6. ASSUME NEW q \in Runs PROVE OwnFiles(q)'
    <2>1. CASE q = r
      BY <2>1, <1>2, <1>3, <1>4 DEF AloneInv, OwnFiles
    <2>2. CASE q # r
      BY <2>2, <1>2, <1>3, <1>4 DEF AloneInv, OwnFiles
    <2> QED BY <2>1, <2>2
  <1>7. ASSUME NEW k \in Labels PROVE OwnManifest(k)'
    <2>1. CASE k = l
      <3>1. manifest'[k].session = Session(r) /\ manifest'[k].frames = files[l]
        BY <2>1, <1>1, <1>2
      <3>2. met[Session(r)] = {} => \A j \in 1 .. N : files[l][j] = Session(r)
        BY <1>2 DEF AloneInv, OwnFiles, Open
      <3> QED BY <3>1, <3>2, <1>2 DEF OwnManifest
    <2>2. CASE k # l
      BY <2>2, <1>1, <1>2 DEF AloneInv, OwnManifest
    <2> QED BY <2>1, <2>2
  <1> QED BY <1>5, <1>6, <1>7 DEF AloneInv

LEMMA AloneSubmits ==
  ASSUME IInv, AloneInv, NEW r \in Runs, Submit(r)
  PROVE  AloneInv'
  <1> DEFINE i == run[r].i
             s == [index |-> i, bytes |-> Bytes(r)]
  <1>1. PICK x \in Sessions : x = Session(r)
    BY RunTypes DEF IInv
  <1>2. /\ run[r].phase = "submit" /\ i \in 1 .. N /\ UNCHANGED <<files, manifest, met>>
        /\ sent' = [sent EXCEPT ![x] = Append(sent[x], s)]
        /\ run[r] \in Places
    BY <1>1, RunTypes, SessionsAssumption DEF Submit, IInv, Types, Places, disk
  <1>3. /\ \A q \in Runs \ {r} : run'[q] = run[q]
        /\ run'[r].label = run[r].label /\ run'[r].phase = "wait"
    BY GotoType DEF Submit, IInv, Phases
  <1>4. \A q \in Runs : /\ Session(q)' = Session(q) /\ run'[q].label = run[q].label
                        /\ Open(q)' = Open(q)
                        /\ run'[q].phase \in {"write", "frame"} => run'[q] = run[q]
    BY <1>2, <1>3 DEF Session, Open
  <1>5. MeetingsNoted' /\ \A k \in Labels : OwnManifest(k)'
    BY <1>2, <1>4 DEF AloneInv, MeetingsNoted, OwnManifest
  <1>6. ASSUME NEW q \in Runs PROVE OwnFiles(q)'
    <2>1. CASE q = r
      BY <2>1, <1>2, <1>3, <1>4 DEF AloneInv, OwnFiles
    <2>2. CASE q # r
      BY <2>2, <1>2, <1>3, <1>4 DEF AloneInv, OwnFiles
    <2> QED BY <2>1, <2>2
  <1>7. ASSUME NEW y \in Sessions PROVE OwnBytes(y)'
    <2>1. CASE y = x
      <3>1. met[x] = {} => Bytes(r) = x
        BY <1>1, <1>2 DEF AloneInv, OwnFiles, Open, Bytes
      <3>2. sent'[x] = Append(sent[x], s) /\ sent[x] \in Seq(Submissions)
        BY <1>2 DEF IInv, Types
      <3>3. /\ Len(sent'[x]) = Len(sent[x]) + 1 /\ sent'[x][Len(sent[x]) + 1] = s
            /\ \A k \in 1 .. Len(sent[x]) : sent'[x][k] = sent[x][k]
            /\ Len(sent[x]) \in Nat
        <4> HIDE DEF s
        <4> QED BY <3>2
      <3>4. met[x] = {} => \A k \in 1 .. Len(sent[x]) : sent[x][k].bytes = x
        BY DEF AloneInv, OwnBytes
      <3>5. s.bytes = Bytes(r)
        OBVIOUS
      <3> HIDE DEF s
      <3> QED BY <2>1, <3>1, <3>3, <3>4, <3>5, <1>2 DEF OwnBytes
    <2>2. CASE y # x
      BY <2>2, <1>2 DEF AloneInv, OwnBytes, IInv, Types
    <2> QED BY <2>1, <2>2
  <1> QED BY <1>5, <1>6, <1>7 DEF AloneInv

LEMMA AloneStep == IInv /\ AloneInv /\ [Next]_vars => AloneInv'
  <1> SUFFICES ASSUME IInv, AloneInv, [Next]_vars PROVE AloneInv'
    OBVIOUS
  <1>1. ASSUME NEW r \in Runs, OpenSession(r) PROVE AloneInv'
    BY <1>1, AloneOpens
  <1>2. ASSUME NEW r \in Runs, OpenFrame(r) \/ DumpFrame(r) PROVE AloneInv'
    BY <1>2, AloneWrites
  <1>3. ASSUME NEW r \in Runs, WriteManifest(r) PROVE AloneInv'
    BY <1>3, AloneListsFiles
  <1>4. ASSUME NEW r \in Runs, Submit(r) PROVE AloneInv'
    BY <1>4, AloneSubmits
  <1>5. ASSUME NEW r \in Runs, Halt(r), UNCHANGED <<sent, disk, met>> PROVE AloneInv'
    <2>1. ~Open(r)' /\ \A q \in Runs \ {r} : run'[q] = run[q]
      BY <1>5, HaltType DEF Open, IInv
    <2> QED BY <1>5, <2>1, AloneKept DEF disk
  <1>6. ASSUME NEW r \in Runs, Proceed(r), UNCHANGED <<sent, files, manifest, met>> PROVE AloneInv'
    <2>1. ~Open(r)' /\ \A q \in Runs \ {r} : run'[q] = run[q]
      <3>1. run[r].label = "pass" => run'[r].phase = "open"
        BY <1>6, ProceedType DEF IInv
      <3>2. run[r].label # "pass" => run'[r].phase = "criteria"
        BY <1>6, ProceedType DEF IInv
      <3> QED BY <1>6, <3>1, <3>2, ProceedType DEF Open, IInv
    <2> QED BY <1>6, <2>1, AloneKept
  <1>7. ASSUME NEW r \in Runs, NEW phase \in Phases, Goto(r, phase), Open(r),
               run[r].phase \notin {"write", "frame"}, UNCHANGED <<sent, files, manifest, met>>
        PROVE  AloneInv'
    <2>1. run'[r].label = run[r].label /\ \A q \in Runs \ {r} : run'[q] = run[q]
      BY <1>7, GotoType DEF IInv
    <2> QED BY <1>7, <2>1, AloneKept
  <1>8. ASSUME NEW r \in Runs, Approved(r) PROVE AloneInv'
    <2>1. /\ run[r].phase = "wait" /\ UNCHANGED <<sent, disk, met>>
          /\ run' = [run EXCEPT ![r].phase = "submit", ![r].i = @ + 1]
      BY <1>8 DEF Approved
    <2>2. run \in [Runs -> Places]
      BY DEF IInv, Types
    <2>3. run'[r].label = run[r].label /\ \A q \in Runs \ {r} : run'[q] = run[q]
      BY <2>1, <2>2 DEF Places
    <2> QED BY <2>1, <2>3, AloneKept DEF Open, disk
  <1>9. ASSUME NEW r \in Runs, Unhealthy(r) \/ FrameUnreadable(r) \/ PassportUnreadable(r) \/ Die(r)
        PROVE  AloneInv'
    BY <1>5, <1>9 DEF Unhealthy, FrameUnreadable, PassportUnreadable, Die
  <1>10. ASSUME NEW r \in Runs, Rejected(r) \/ CommError(r) \/ ValidatePassport(r) PROVE AloneInv'
    BY <1>6, <1>10 DEF Rejected, CommError, ValidatePassport, disk
  <1>11. ASSUME NEW r \in Runs, OpenPassport(r) PROVE AloneInv'
    BY <1>7, <1>11 DEF OpenPassport, Open, Phases
  <1>12. ASSUME NEW r \in Runs, DumpPassport(r) PROVE AloneInv'
    <2>1. Goto(r, "validate") \/ Proceed(r)
      BY <1>12 DEF DumpPassport
    <2>2. run[r].phase = "dump" /\ UNCHANGED <<sent, files, manifest, met>>
      BY <1>12 DEF DumpPassport
    <2> QED BY <1>6, <1>7, <2>1, <2>2 DEF Open, Phases
  <1>13. ASSUME NEW r \in Runs, Evaluate(r) PROVE AloneInv'
    <2>1. ~Open(r)' /\ \A q \in Runs \ {r} : run'[q] = run[q]
      BY <1>13, GotoType DEF Open, IInv, Evaluate, Phases
    <2> QED BY <1>13, <2>1, AloneKept DEF Evaluate, disk
  <1>14. CASE UNCHANGED <<run, sent, disk, met>>
    BY <1>14 DEF AloneInv, MeetingsNoted, OwnFiles, OwnBytes, OwnManifest, Open, Session, disk
  <1>15. ASSUME NEW q \in Requests, Register(q) PROVE AloneInv'
    BY <1>14, <1>15 DEF Register
  <1>16. CASE UNCHANGED vars
    BY <1>14, <1>16 DEF vars
  <1> QED BY <1>1, <1>2, <1>3, <1>4, <1>8, <1>9, <1>10, <1>11, <1>12, <1>13, <1>15, <1>16
          DEF Next, Step

LEMMA AloneHolds == Spec => [](IInv /\ AloneInv)
  <1>1. Init => IInv /\ AloneInv
    BY InvInit, AloneInit
  <1>2. IInv /\ AloneInv /\ [Next]_vars => (IInv /\ AloneInv)'
    BY InvStep, AloneStep
  <1> QED BY <1>1, <1>2, PTL DEF Spec

\* A passport of a session that met no other in its directory certifies that
\* session's scene: the gate was sent its own frames and its manifest, while it
\* is there, lists them.
THEOREM UndisturbedSessions == Spec => []UndisturbedSession
  <1>1. IInv /\ AloneInv => UndisturbedSession
    <2> SUFFICES ASSUME IInv, AloneInv, NEW l \in Labels, NEW x, x = passport[l].session,
                        passport[l].frames # <<>>, met[x] = {}, NEW i \in 1 .. N
                 PROVE  /\ sent[x][i].bytes = x
                        /\ manifest[l].session = x => manifest[l].frames[i] = x
      BY DEF UndisturbedSession
    <2>1. x \in Sessions /\ Len(sent[x]) = N
      BY DEF IInv, PassportInv, Complete
    <2>2. sent[x][i].bytes = x
      BY <2>1 DEF AloneInv, OwnBytes
    <2>3. manifest[l].session = x => manifest[l].frames[i] = x
      BY <2>1 DEF AloneInv, OwnManifest
    <2> QED BY <2>2, <2>3
  <1> QED BY <1>1, AloneHolds, PTL

=============================================================================
