---- MODULE RqmTestcasesProofs ----
(***************************************************************************)
(* What holds of the test cases and of the caches for every number of      *)
(* requests, documents and threads, however they interleave on the shared  *)
(* client, and whatever RQM refuses or loses.  Three invariants, each on   *)
(* top of those before it:                                                 *)
(*                                                                         *)
(* ScriptInv: every test case has a script of its own.  OwnScript is not   *)
(* inductive: a test case is created with the script id its thread was     *)
(* given by an earlier call.  So the invariant claims the same of the ids  *)
(* that threads hold between their two POSTs: each is of a script there    *)
(* is, that no test case links to and no other thread holds.               *)
(*                                                                         *)
(* ListsInv: the types, and that listings name test cases there are.  The  *)
(* copies that requests hold are included, since they are stored later;    *)
(* and Room, that ids never run out of CaseIds, counts the threads that    *)
(* may still create a test case.                                           *)
(*                                                                         *)
(* CachesInv: the caches agree with RQM as long as nothing failed or       *)
(* overlapped.  Within a request they do not: it says, stage by stage,     *)
(* what is stale and what the request holds to put it right.               *)
(***************************************************************************)
EXTENDS RqmTestcases, SubsequencesProofs, SequenceTheorems, FiniteSetTheorems, TLAPS

Case == [title: Docs \cup {None}, script: Nat]
Script == [steps: Docs \cup {None}]

Shapes ==
  /\ cases \in Seq(Case) /\ scripts \in Seq(Script)
  /\ threads \in [Workers -> Seq(Thread)]

\* The thread has its script, and posts the test case next.
Pending(w, i) == i \in DOMAIN threads[w] /\ threads[w][i].at = "post_case"

PendingIsFree ==
  \A w \in Workers, i \in Nat : Pending(w, i) =>
    /\ threads[w][i].script \in DOMAIN scripts
    /\ \A c \in DOMAIN cases : cases[c].script # threads[w][i].script

PendingApart ==
  \A w, v \in Workers, i, j \in Nat :
    Pending(w, i) /\ Pending(v, j) /\ threads[w][i].script = threads[v][j].script
      => w = v /\ i = j

Fields == {"at", "id", "got"}

\* A request that reads a test case has one that is there, and one thread; only
\* such a request reads and changes, and threads begin with their request.
Fits(w) ==
  /\ job[w].at \in {"retrieve", "update"} =>
       job[w].id \in DOMAIN cases /\ DOMAIN threads[w] \subseteq {1}
  /\ \A i \in DOMAIN threads[w] :
       /\ threads[w][i].at \in {"login", "header"} =>
            job[w].at \in {"create", "retrieve", "update"}
       /\ threads[w][i].at \in {"get_case", "get_script", "put_case", "put_script"} =>
            job[w].at \in {"retrieve", "update"}

JobsFit ==
  /\ DOMAIN job = Workers
  /\ \A w \in Workers : DOMAIN job[w] = Fields /\ Fits(w)

ScriptInv == Shapes /\ JobsFit /\ OwnScript /\ PendingIsFree /\ PendingApart

----
(* Steps, by what they do. *)

\* A sequence with one more element.
LEMMA Appended ==
  ASSUME NEW S, NEW s \in Seq(S), NEW x \in S
  PROVE  /\ Append(s, x) \in Seq(S) /\ Len(s) \in Nat
         /\ DOMAIN s = 1 .. Len(s) /\ DOMAIN Append(s, x) = 1 .. Len(s) + 1
         /\ \A i \in 1 .. Len(s) : Append(s, x)[i] = s[i]
         /\ Append(s, x)[Len(s) + 1] = x
BY AppendProperties, LenProperties

\* RQM keeps the test cases with their links, and has all scripts it had.
KeepsLinks ==
  /\ cases' \in Seq(Case) /\ scripts' \in Seq(Script)
  /\ DOMAIN cases' = DOMAIN cases /\ DOMAIN scripts \subseteq DOMAIN scripts'
  /\ \A c \in DOMAIN cases : cases'[c].script = cases[c].script

LEMMA UnchangedKeeps == ASSUME Shapes, UNCHANGED rqm PROVE KeepsLinks
BY DEF Shapes, KeepsLinks, rqm

\* A worker moves on, and none of its threads is about to post a test case
\* that was not, or for another script.
LEMMA Moves ==
  ASSUME ScriptInv, NEW w \in Workers, KeepsLinks, threads' \in [Workers -> Seq(Thread)],
         DOMAIN job' = Workers, DOMAIN job'[w] = Fields, Fits(w)',
         \A v \in Workers : v # w => threads'[v] = threads[v] /\ job'[v] = job[v],
         \A i \in Nat :
           Pending(w, i)' => Pending(w, i) /\ threads'[w][i].script = threads[w][i].script
  PROVE  ScriptInv'
<1>1. Shapes' /\ OwnScript'
  BY DEF ScriptInv, Shapes, OwnScript, KeepsLinks
<1>2. JobsFit'
  BY DEF ScriptInv, JobsFit, Fits, KeepsLinks
<1>3. \A v \in Workers, i \in Nat :
        Pending(v, i)' => Pending(v, i) /\ threads'[v][i].script = threads[v][i].script
  BY DEF Pending
<1>4. PendingIsFree'
  BY <1>3 DEF ScriptInv, PendingIsFree, KeepsLinks
<1>5. PendingApart'
  BY <1>3 DEF ScriptInv, PendingApart
<1> QED BY <1>1, <1>2, <1>4, <1>5 DEF ScriptInv

\* One thread moves on.
LEMMA ThreadMoves ==
  ASSUME Shapes, NEW w \in Workers, NEW i \in DOMAIN threads[w], NEW t \in Thread,
         threads' = [threads EXCEPT ![w][i] = t]
  PROVE  /\ threads' \in [Workers -> Seq(Thread)]
         /\ DOMAIN threads'[w] = DOMAIN threads[w] /\ threads'[w][i] = t
         /\ \A j \in DOMAIN threads[w] : j # i => threads'[w][j] = threads[w][j]
         /\ \A v \in Workers : v # w => threads'[v] = threads[v]
<1>1. threads[w] \in Seq(Thread) /\ DOMAIN threads[w] = 1 .. Len(threads[w])
  BY LenProperties DEF Shapes
<1>2. /\ [threads[w] EXCEPT ![i] = t] \in Seq(Thread)
      /\ DOMAIN [threads[w] EXCEPT ![i] = t] = DOMAIN threads[w]
  BY <1>1, ExceptSeq
<1>3. threads'[w] = [threads[w] EXCEPT ![i] = t]
  BY DEF Shapes
<1> QED BY <1>2, <1>3 DEF Shapes

\* The threads are records.
LEMMA ThreadType ==
  ASSUME Shapes, NEW w \in Workers, NEW i \in DOMAIN threads[w]
  PROVE  threads[w][i] \in Thread /\ i \in Nat
<1>1. threads[w] \in Seq(Thread) /\ DOMAIN threads[w] = 1 .. Len(threads[w])
      /\ Len(threads[w]) \in Nat
  BY LenProperties DEF Shapes
<1> QED BY <1>1, ElementOfSeq

\* A thread steps, and is not about to post a test case then.
LEMMA Steps ==
  ASSUME ScriptInv, NEW w \in Workers, NEW i \in DOMAIN threads[w], KeepsLinks,
         job' = job, NEW t \in Thread, threads' = [threads EXCEPT ![w][i] = t],
         t.at # "post_case",
         t.at \in {"login", "header"} => job[w].at \in {"create", "retrieve", "update"},
         t.at \in {"get_case", "get_script", "put_case", "put_script"} =>
           job[w].at \in {"retrieve", "update"}
  PROVE  ScriptInv'
<1>1. /\ threads' \in [Workers -> Seq(Thread)]
      /\ DOMAIN threads'[w] = DOMAIN threads[w] /\ threads'[w][i] = t
      /\ \A j \in DOMAIN threads[w] : j # i => threads'[w][j] = threads[w][j]
      /\ \A v \in Workers : v # w => threads'[v] = threads[v]
  BY ThreadMoves DEF ScriptInv
<1>2. Fits(w)'
  BY <1>1 DEF ScriptInv, JobsFit, Fits, KeepsLinks
<1>3. \A j \in Nat :
        Pending(w, j)' => Pending(w, j) /\ threads'[w][j].script = threads[w][j].script
  BY <1>1 DEF Pending
<1> QED BY <1>1, <1>2, <1>3, Moves DEF ScriptInv, JobsFit

\* A thread is given a script, or its test case.
LEMMA ThreadUpdates ==
  ASSUME NEW t \in Thread, NEW n \in Nat
  PROVE  /\ [t EXCEPT !.at = "post_case", !.script = n] \in Thread
         /\ [t EXCEPT !.at = "post_case", !.script = n].at = "post_case"
         /\ [t EXCEPT !.at = "post_case", !.script = n].script = n
         /\ [t EXCEPT !.at = "made", !.id = n] \in Thread
         /\ [t EXCEPT !.at = "made", !.id = n].at = "made"
BY DEF Thread

\* Step, as Steps wants it.
LEMMA StepIs ==
  ASSUME Shapes, NEW w \in Workers, NEW i \in DOMAIN threads[w],
         NEW at \in {"login", "header", "post_script", "post_case", "get_case", "get_script",
                     "put_case", "put_script", "made", "failed", "raised"},
         Step(w, i, at)
  PROVE  \E t \in Thread :
           /\ threads' = [threads EXCEPT ![w][i] = t]
           /\ t.at = at /\ t.script = threads[w][i].script
<1> DEFINE t == [threads[w][i] EXCEPT !.at = at]
<1>1. threads[w][i] \in Thread
  BY ThreadType
<1>2. t \in Thread /\ t.at = at /\ t.script = threads[w][i].script
  BY <1>1 DEF Thread
<1>3. threads' = [threads EXCEPT ![w][i] = t]
  BY DEF Step
<1> QED BY <1>2, <1>3

\* A request ends.
LEMMA Ends ==
  ASSUME ScriptInv, NEW w \in Workers, End(w), KeepsLinks
  PROVE  ScriptInv'
<1>1. /\ threads' \in [Workers -> Seq(Thread)] /\ threads'[w] = << >>
      /\ \A v \in Workers : v # w => threads'[v] = threads[v] /\ job'[v] = job[v]
      /\ DOMAIN job' = Workers /\ job'[w] = Idle
  BY DEF End, ScriptInv, Shapes, JobsFit
<1>2. DOMAIN job'[w] = Fields /\ Fits(w)'
  BY <1>1 DEF Idle, Fields, Fits
<1>3. \A i \in Nat : ~ Pending(w, i)'
  BY <1>1 DEF Pending
<1> QED BY <1>1, <1>2, <1>3, Moves

\* A request begins, with threads that log in first.
LEMMA Begins ==
  ASSUME ScriptInv, NEW w \in Workers, NEW j, NEW ts \in Seq(Thread), Begin(w, j, ts),
         DOMAIN j = Fields,
         \A i \in DOMAIN ts : ts[i].at = "login" /\ j.at \in {"create", "retrieve", "update"},
         j.at \in {"retrieve", "update"} => j.id \in DOMAIN cases /\ DOMAIN ts \subseteq {1}
  PROVE  ScriptInv'
<1>1. /\ threads' \in [Workers -> Seq(Thread)] /\ threads'[w] = ts
      /\ \A v \in Workers : v # w => threads'[v] = threads[v] /\ job'[v] = job[v]
      /\ DOMAIN job' = Workers /\ job'[w] = j /\ KeepsLinks
  BY UnchangedKeeps DEF Begin, ScriptInv, Shapes, JobsFit
<1>2. Fits(w)'
  BY <1>1 DEF Fits, KeepsLinks
<1>3. \A i \in Nat : ~ Pending(w, i)'
  BY <1>1 DEF Pending
<1> QED BY <1>1, <1>2, <1>3, Moves

\* A request goes on, while none of its threads is in a call.
LEMMA GoesOn ==
  ASSUME ScriptInv, NEW w \in Workers, NEW at, at \notin {"retrieve", "update"}, NEW got,
         Goto(w, at) \/ GoWith(w, at, got), KeepsLinks, threads' = threads,
         \A i \in DOMAIN threads[w] :
           threads[w][i].at \notin {"login", "header", "get_case", "get_script", "put_case",
                                    "put_script"}
  PROVE  ScriptInv'
<1>1. /\ DOMAIN job' = Workers /\ DOMAIN job'[w] = Fields /\ job'[w].at = at
      /\ \A v \in Workers : v # w => job'[v] = job[v]
  BY DEF Goto, GoWith, ScriptInv, JobsFit, Fields
<1>2. Fits(w)'
  BY <1>1 DEF Fits
<1> QED BY <1>1, <1>2, Moves DEF ScriptInv, Shapes, Pending
----
(* The threads. *)

\* A thread that is at a call is one of the worker's threads.
LEMMA AtIsThread ==
  ASSUME NEW w, NEW i, At(w, i) # "none"
  PROVE  i \in DOMAIN threads[w] /\ At(w, i) = threads[w][i].at
BY DEF At

\* Logins, failures and refusals.
LEMMA CallsKeep ==
  ASSUME ScriptInv, NEW w \in Workers, NEW i,
         Login(w, i) \/ LoginRefused(w, i) \/ SetHeader(w, i) \/ Raise(w, i) \/ PostRefused(w, i)
  PROVE  ScriptInv'
<1>1. /\ i \in DOMAIN threads[w] /\ At(w, i) = threads[w][i].at /\ KeepsLinks
  BY AtIsThread, UnchangedKeeps
     DEF Login, LoginRefused, SetHeader, Raise, PostRefused, Posting, ScriptInv
<1>2. CASE Raise(w, i) /\ job[w].at # "create"
  BY <1>1, <1>2, Ends DEF Raise
<1>3. CASE ~ (Raise(w, i) /\ job[w].at # "create")
  <2>1. PICK at \in {"header", "post_script", "get_case", "failed", "raised"} :
          /\ Step(w, i, at) /\ job' = job
          /\ at \in {"header", "get_case"} => threads[w][i].at \in {"login", "header"}
          /\ at = "get_case" => job[w].at # "create"
    BY <1>1, <1>3 DEF Login, LoginRefused, SetHeader, Raise, PostRefused, FirstCall
  <2>2. PICK t \in Thread : threads' = [threads EXCEPT ![w][i] = t] /\ t.at = at
    BY <1>1, <2>1, StepIs DEF ScriptInv
  <2>3. at \in {"header", "get_case"} => job[w].at \in {"create", "retrieve", "update"}
    BY <1>1, <2>1 DEF ScriptInv, JobsFit, Fits
  <2> QED BY <1>1, <2>1, <2>2, <2>3, Steps
<1> QED BY <1>2, <1>3

\* The script is there, and its id is held by its thread alone.
LEMMA PostScriptKeeps ==
  ASSUME ScriptInv, NEW w \in Workers, NEW i, PostScript(w, i)
  PROVE  ScriptInv'
<1> DEFINE t == threads[w][i]
           n == Len(scripts)
           x == [t EXCEPT !.at = "post_case", !.script = n + 1]
           y == TestscriptTemplate(t.doc)
<1>1. /\ i \in DOMAIN threads[w] /\ t \in Thread /\ i \in Nat
      /\ threads' = [threads EXCEPT ![w][i] = x]
      /\ scripts' = Append(scripts, y) /\ cases' = cases /\ job' = job
  BY AtIsThread, ThreadType DEF PostScript, NewId, ScriptInv
<1>2. scripts \in Seq(Script) /\ y \in Script
  BY <1>1 DEF ScriptInv, Shapes, TestscriptTemplate, Thread, Script
<1>3. /\ scripts' \in Seq(Script) /\ n \in Nat
      /\ DOMAIN scripts = 1 .. n /\ DOMAIN scripts' = 1 .. n + 1
  BY <1>1, <1>2, Appended
<1>4. x \in Thread /\ x.at = "post_case" /\ x.script = n + 1
  <2>1. t \in Thread /\ n + 1 \in Nat
    BY <1>1, <1>3
  <2> HIDE DEF t, n
  <2> QED BY <2>1, ThreadUpdates
<1> HIDE DEF x, y
<1>5. /\ threads' \in [Workers -> Seq(Thread)]
      /\ DOMAIN threads'[w] = DOMAIN threads[w] /\ threads'[w][i] = x
      /\ \A j \in DOMAIN threads[w] : j # i => threads'[w][j] = threads[w][j]
      /\ \A v \in Workers : v # w => threads'[v] = threads[v]
  BY <1>1, <1>4, ThreadMoves DEF ScriptInv
<1>6. Shapes'
  BY <1>1, <1>3, <1>5 DEF ScriptInv, Shapes
<1>7. JobsFit'
  <2>1. Fits(w)'
    BY <1>1, <1>4, <1>5 DEF ScriptInv, JobsFit, Fits
  <2>2. \A v \in Workers : v # w => Fits(v)'
    BY <1>1, <1>5 DEF ScriptInv, JobsFit, Fits
  <2> QED BY <1>1, <2>1, <2>2 DEF ScriptInv, JobsFit
<1>8. OwnScript'
  BY <1>1, <1>3 DEF ScriptInv, OwnScript
<1>9. \A v \in Workers, j \in Nat :
        Pending(v, j)' =>
          \/ v = w /\ j = i /\ threads'[v][j].script = n + 1
          \/ /\ Pending(v, j) /\ threads'[v][j].script = threads[v][j].script
             /\ threads[v][j].script \in 1 .. n
  BY <1>3, <1>4, <1>5 DEF Pending, ScriptInv, PendingIsFree
<1>10. PendingIsFree'
  <2> SUFFICES ASSUME NEW v \in Workers, NEW j \in Nat, Pending(v, j)'
               PROVE  /\ threads'[v][j].script \in DOMAIN scripts'
                      /\ \A c \in DOMAIN cases : cases[c].script # threads'[v][j].script
    BY <1>1 DEF PendingIsFree
  <2>1. CASE threads'[v][j].script = n + 1
    <3>1. \A c \in DOMAIN cases : cases[c].script \in 1 .. n
      BY <1>3 DEF ScriptInv, OwnScript
    <3> QED BY <1>3, <2>1, <3>1
  <2>2. CASE Pending(v, j) /\ threads'[v][j].script = threads[v][j].script
    BY <1>3, <2>2 DEF ScriptInv, PendingIsFree
  <2> QED BY <1>9, <2>1, <2>2
<1>11. PendingApart'
  <2> SUFFICES ASSUME NEW v \in Workers, NEW u \in Workers, NEW j \in Nat, NEW k \in Nat,
                      Pending(v, j)', Pending(u, k)',
                      threads'[v][j].script = threads'[u][k].script
               PROVE  v = u /\ j = k
    BY DEF PendingApart
  <2>1. CASE threads'[v][j].script = n + 1
    <3>1. n + 1 \notin 1 .. n
      BY <1>3
    <3>2. v = w /\ j = i
      BY <1>9, <2>1, <3>1
    <3>3. u = w /\ k = i
      BY <1>9, <2>1, <3>1
    <3> QED BY <3>2, <3>3
  <2>2. CASE threads'[v][j].script # n + 1
    BY <1>3, <1>9, <2>2 DEF ScriptInv, PendingApart
  <2> QED BY <2>1, <2>2
<1> QED BY <1>6, <1>7, <1>8, <1>10, <1>11 DEF ScriptInv

\* A test case is there, with the script its thread held.
LEMMA CasePosted ==
  ASSUME ScriptInv, NEW w \in Workers, NEW i \in Nat, Pending(w, i),
         cases' = Append(cases, TestcaseTemplate(threads[w][i].doc, threads[w][i].script)),
         scripts' = scripts, job' = job, NEW x \in Thread, x.at \in Ended,
         threads' = [threads EXCEPT ![w][i] = x]
  PROVE  ScriptInv'
<1> DEFINE t == threads[w][i]
           n == Len(cases)
           y == TestcaseTemplate(t.doc, t.script)
<1>1. i \in DOMAIN threads[w] /\ t \in Thread
  BY ThreadType DEF Pending, ScriptInv
<1>2. cases \in Seq(Case) /\ y \in Case /\ y.script = t.script
  BY <1>1 DEF ScriptInv, Shapes, TestcaseTemplate, Thread, Case
<1> HIDE DEF y
<1>3. /\ cases' \in Seq(Case) /\ n \in Nat
      /\ DOMAIN cases = 1 .. n /\ DOMAIN cases' = 1 .. n + 1
      /\ \A c \in 1 .. n : cases'[c] = cases[c]
      /\ cases'[n + 1] = y
  BY <1>2, Appended DEF y
<1>4. /\ threads' \in [Workers -> Seq(Thread)]
      /\ DOMAIN threads'[w] = DOMAIN threads[w] /\ threads'[w][i] = x
      /\ \A j \in DOMAIN threads[w] : j # i => threads'[w][j] = threads[w][j]
      /\ \A v \in Workers : v # w => threads'[v] = threads[v]
  BY <1>1, ThreadMoves DEF ScriptInv
<1>5. Shapes'
  BY <1>3, <1>4 DEF ScriptInv, Shapes
<1>6. JobsFit'
  <2>1. Fits(w)'
    BY <1>3, <1>4 DEF ScriptInv, JobsFit, Fits, Ended
  <2>2. \A v \in Workers : v # w => Fits(v)'
    BY <1>3, <1>4 DEF ScriptInv, JobsFit, Fits
  <2> QED BY <2>1, <2>2 DEF ScriptInv, JobsFit
<1>7. t.script \in DOMAIN scripts /\ \A c \in DOMAIN cases : cases[c].script # t.script
  BY DEF ScriptInv, PendingIsFree
<1>8. OwnScript'
  <2> SUFFICES ASSUME NEW c \in DOMAIN cases'
               PROVE  /\ cases'[c].script \in DOMAIN scripts
                      /\ \A d \in DOMAIN cases' :
                           cases'[c].script = cases'[d].script => c = d
    BY DEF OwnScript
  <2>1. CASE c = n + 1
    BY <1>2, <1>3, <1>7, <2>1
  <2>2. CASE c \in 1 .. n
    BY <1>2, <1>3, <1>7, <2>2 DEF ScriptInv, OwnScript
  <2> QED BY <1>3, <2>1, <2>2
<1>9. \A v \in Workers, j \in Nat :
        Pending(v, j)' => /\ Pending(v, j) /\ threads'[v][j] = threads[v][j]
                          /\ threads[v][j].script # t.script
  BY <1>4 DEF Pending, Ended, ScriptInv, PendingApart
<1>10. PendingIsFree'
  BY <1>2, <1>3, <1>9 DEF ScriptInv, PendingIsFree
<1>11. PendingApart'
  BY <1>9 DEF ScriptInv, PendingApart
<1> QED BY <1>5, <1>6, <1>8, <1>10, <1>11 DEF ScriptInv

\* The POST of a test case succeeds, and its thread may not know.
LEMMA PostCaseKeeps ==
  ASSUME ScriptInv, NEW w \in Workers, NEW i \in Nat, PostCase(w, i)
  PROVE  ScriptInv'
<1> DEFINE x == [threads[w][i] EXCEPT !.at = "made", !.id = NewId(cases)]
<1>1. Pending(w, i) /\ threads[w][i] \in Thread
  BY AtIsThread, ThreadType DEF PostCase, Pending, ScriptInv
<1>2. Len(cases) \in Nat
  BY LenProperties DEF ScriptInv, Shapes
<1>3. x \in Thread /\ x.at \in Ended
  <2>1. threads[w][i] \in Thread /\ NewId(cases) \in Nat
    BY <1>1, <1>2 DEF NewId
  <2> QED BY <2>1, ThreadUpdates, Zenon DEF Ended
<1>4. /\ cases' = Append(cases, TestcaseTemplate(threads[w][i].doc, threads[w][i].script))
      /\ scripts' = scripts /\ job' = job /\ threads' = [threads EXCEPT ![w][i] = x]
  BY DEF PostCase
<1> HIDE DEF x
<1> QED BY <1>1, <1>3, <1>4, CasePosted

LEMMA PostLostKeeps ==
  ASSUME ScriptInv, NEW w \in Workers, NEW i \in Nat, PostLost(w, i)
  PROVE  ScriptInv'
<1>1. i \in DOMAIN threads[w] /\ At(w, i) = threads[w][i].at /\ threads[w][i] \in Thread
  BY AtIsThread, ThreadType DEF PostLost, Posting, ScriptInv
<1>2. PICK at \in {"failed", "raised"} : Step(w, i, at)
  BY DEF PostLost
<1>3. PICK x \in Thread : threads' = [threads EXCEPT ![w][i] = x] /\ x.at = at
  BY <1>1, <1>2, StepIs DEF ScriptInv
<1>4. CASE threads[w][i].at = "post_script"
  <2> DEFINE y == TestscriptTemplate(threads[w][i].doc)
  <2>1. scripts' = Append(scripts, y) /\ cases' = cases /\ job' = job
    BY <1>4 DEF PostLost
  <2>2. scripts \in Seq(Script) /\ y \in Script
    BY <1>1 DEF ScriptInv, Shapes, TestscriptTemplate, Thread, Script
  <2> HIDE DEF y
  <2>3. scripts' \in Seq(Script) /\ DOMAIN scripts \subseteq DOMAIN scripts'
    <3>1. /\ Append(scripts, y) \in Seq(Script) /\ Len(scripts) \in Nat
          /\ DOMAIN scripts = 1 .. Len(scripts)
          /\ DOMAIN Append(scripts, y) = 1 .. Len(scripts) + 1
      BY <2>2, Appended
    <3> QED BY <2>1, <3>1
  <2>4. KeepsLinks
    BY <2>1, <2>3 DEF KeepsLinks, ScriptInv, Shapes
  <2> QED BY <1>1, <1>3, <2>1, <2>4, Steps
<1>5. CASE threads[w][i].at # "post_script"
  <2>1. Pending(w, i)
    BY <1>1, <1>5 DEF PostLost, Posting, Pending
  <2>2. /\ cases' = Append(cases, TestcaseTemplate(threads[w][i].doc, threads[w][i].script))
        /\ scripts' = scripts /\ job' = job
    BY <1>5 DEF PostLost
  <2> QED BY <1>3, <2>1, <2>2, CasePosted DEF Ended
<1> QED BY <1>4, <1>5

----
(* The requests. *)

\* What begins.
LEMMA BeginsKeep ==
  ASSUME ScriptInv, NEW w \in Workers, List(w) \/ Create(w) \/ Retrieve(w) \/ Update(w)
  PROVE  ScriptInv'
<1>1. CASE List(w)
  <2> DEFINE j == [Idle EXCEPT !.at = "list", !.got = [entries |-> << >>, number |-> 0,
                                                          success |-> TRUE]]
  <2>1. Begin(w, j, << >>) /\ DOMAIN j = Fields /\ j.at = "list"
    BY <1>1 DEF List, Idle, Fields
  <2> HIDE DEF j
  <2>2. << >> \in Seq(Thread) /\ DOMAIN << >> = {}
    OBVIOUS
  <2> QED BY <2>1, <2>2, Begins
<1>2. CASE Create(w)
  <2>1. PICK docs \in DocLists :
          Begin(w, [Idle EXCEPT !.at = "create"], [i \in DOMAIN docs |-> NewThread(docs[i])])
    BY <1>2 DEF Create
  <2> DEFINE j == [Idle EXCEPT !.at = "create"]
             ts == [i \in DOMAIN docs |-> NewThread(docs[i])]
  <2>2. PICK n \in 1 .. MaxItems : docs \in [1 .. n -> Docs]
    BY <2>1 DEF DocLists
  <2>3. \A d \in Docs : NewThread(d) \in Thread /\ NewThread(d).at = "login"
    BY DEF NewThread, Thread
  <2>4. ts \in [1 .. n -> Thread] /\ \A i \in DOMAIN ts : ts[i].at = "login"
    BY <2>2, <2>3
  <2>5. n \in Nat
    BY <2>2, BoundsAssumption
  <2>6. DOMAIN j = Fields /\ j.at = "create"
    BY DEF Idle, Fields
  <2> HIDE DEF ts, j
  <2>7. ts \in Seq(Thread)
    BY <2>4, <2>5, SeqDef
  <2> QED BY <2>1, <2>4, <2>6, <2>7, Begins DEF ts, j
<1>3. CASE Retrieve(w)
  <2>1. PICK id \in DOMAIN cases :
          Begin(w, [Idle EXCEPT !.at = "retrieve", !.id = id], <<NewThread(None)>>)
    BY <1>3 DEF Retrieve
  <2> DEFINE j == [Idle EXCEPT !.at = "retrieve", !.id = id]
             ts == <<NewThread(None)>>
  <2>2. DOMAIN j = Fields /\ j.at = "retrieve" /\ j.id = id
    BY DEF Idle, Fields
  <2>3. NewThread(None) \in Thread /\ NewThread(None).at = "login"
    BY DEF NewThread, Thread
  <2>4. ts \in Seq(Thread) /\ DOMAIN ts = {1} /\ ts[1].at = "login"
    BY <2>3
  <2> HIDE DEF ts, j
  <2> QED BY <2>1, <2>2, <2>4, Begins DEF ts, j
<1>4. CASE Update(w)
  <2>1. PICK id \in DOMAIN cases, doc \in Docs :
          Begin(w, [Idle EXCEPT !.at = "update", !.id = id], <<NewThread(doc)>>)
    BY <1>4 DEF Update
  <2> DEFINE j == [Idle EXCEPT !.at = "update", !.id = id]
             ts == <<NewThread(doc)>>
  <2>2. DOMAIN j = Fields /\ j.at = "update" /\ j.id = id
    BY DEF Idle, Fields
  <2>3. NewThread(doc) \in Thread /\ NewThread(doc).at = "login"
    BY DEF NewThread, Thread
  <2>4. ts \in Seq(Thread) /\ DOMAIN ts = {1} /\ ts[1].at = "login"
    BY <2>3
  <2> HIDE DEF ts, j
  <2> QED BY <2>1, <2>2, <2>4, Begins DEF ts, j
<1> QED BY <1>1, <1>2, <1>3, <1>4

\* A request that is not about threads has none in a call.
LEMMA NoneInCall ==
  ASSUME ScriptInv, NEW w \in Workers, job[w].at \notin {"create", "retrieve", "update"}
  PROVE  \A i \in DOMAIN threads[w] :
           threads[w][i].at \notin {"login", "header", "get_case", "get_script", "put_case",
                                    "put_script"}
BY DEF ScriptInv, JobsFit, Fits

\* The caches are read and written, RQM is not, nor do threads move.
LEMMA CachesKeep ==
  ASSUME ScriptInv, NEW w \in Workers,
         \/ FetchPage(w) \/ FetchFails(w) \/ StoreListing(w) \/ Collect(w) \/ StoreAppended(w)
         \/ StoreSheet(w) \/ StoreUpdate(w) \/ ReadListing(w) \/ StoreRenamed(w)
  PROVE  ScriptInv'
<1>1. KeepsLinks
  BY UnchangedKeeps DEF ScriptInv, FetchPage, FetchFails, StoreListing, Collect, StoreAppended,
                        StoreSheet, StoreUpdate, ReadListing, StoreRenamed
<1>2. CASE End(w)
  BY <1>1, <1>2, Ends
<1>3. CASE ~ End(w)
  <2>1. \E at \in {"list", "listed", "append", "reread", "rename"} : \E got :
          (Goto(w, at) \/ GoWith(w, at, got)) /\ threads' = threads
    BY <1>3 DEF FetchPage, FetchFails, StoreListing, Collect, StoreAppended, StoreSheet,
                StoreUpdate, ReadListing, StoreRenamed
  <2>2. \A i \in DOMAIN threads[w] :
          threads[w][i].at \notin {"login", "header", "get_case", "get_script", "put_case",
                                   "put_script"}
    <3>1. CASE job[w].at = "create"
      BY <1>3, <3>1 DEF FetchPage, FetchFails, StoreListing, Collect, StoreAppended,
                        StoreSheet, StoreUpdate, ReadListing, StoreRenamed, Ended
    <3>2. CASE job[w].at # "create"
      <4>1. job[w].at \notin {"create", "retrieve", "update"}
        BY <3>2 DEF FetchPage, FetchFails, StoreListing, Collect, StoreAppended, StoreSheet,
                    StoreUpdate, ReadListing, StoreRenamed
      <4> QED BY <4>1, NoneInCall
    <3> QED BY <3>1, <3>2
  <2> QED BY <1>1, <2>1, <2>2, GoesOn
<1> QED BY <1>2, <1>3

\* What is sent to RQM's resources leaves the rest as it was.
LEMMA Overwritten ==
  ASSUME NEW S, NEW s \in Seq(S), NEW k, NEW y \in S
  PROVE  [s EXCEPT ![k] = y] \in Seq(S) /\ DOMAIN [s EXCEPT ![k] = y] = DOMAIN s
<1>1. s \in [1 .. Len(s) -> S] /\ Len(s) \in Nat
  BY LenProperties
<1>2. [s EXCEPT ![k] = y] \in [1 .. Len(s) -> S]
  BY <1>1
<1> QED BY <1>1, <1>2, SeqDef

\* The one thread of a request that reads or changes a test case.
LEMMA OneThread ==
  ASSUME ScriptInv, NEW w \in Workers,
         At(w, 1) \in {"get_case", "get_script", "put_case", "put_script"}
  PROVE  /\ 1 \in DOMAIN threads[w] /\ DOMAIN threads[w] \subseteq {1}
         /\ threads[w][1] \in Thread /\ threads[w][1].at = At(w, 1)
         /\ job[w].at \in {"retrieve", "update"} /\ job[w].id \in DOMAIN cases
<1>1. 1 \in DOMAIN threads[w] /\ At(w, 1) = threads[w][1].at
  BY AtIsThread
<1>2. threads[w][1] \in Thread
  BY <1>1, ThreadType DEF ScriptInv
<1> QED BY <1>1, <1>2 DEF ScriptInv, JobsFit, Fits

\* The thread is done, and the request goes on with what it got.
LEMMA ThreadDone ==
  ASSUME ScriptInv, NEW w \in Workers, At(w, 1) \in {"get_script", "put_script"},
         Step(w, 1, "made"), KeepsLinks, NEW at \in {"sheet", "restore"}, NEW got,
         Goto(w, at) \/ GoWith(w, at, got)
  PROVE  ScriptInv'
<1>1. 1 \in DOMAIN threads[w] /\ DOMAIN threads[w] \subseteq {1}
  BY OneThread
<1>2. PICK t \in Thread : threads' = [threads EXCEPT ![w][1] = t] /\ t.at = "made"
  BY <1>1, StepIs DEF ScriptInv
<1>3. /\ threads' \in [Workers -> Seq(Thread)]
      /\ DOMAIN threads'[w] = DOMAIN threads[w] /\ threads'[w][1] = t
      /\ \A v \in Workers : v # w => threads'[v] = threads[v]
  BY <1>1, <1>2, ThreadMoves DEF ScriptInv
<1>4. /\ DOMAIN job' = Workers /\ DOMAIN job'[w] = Fields /\ job'[w].at = at
      /\ \A v \in Workers : v # w => job'[v] = job[v]
  BY DEF Goto, GoWith, ScriptInv, JobsFit, Fields
<1>5. Fits(w)' /\ \A i \in Nat : ~ Pending(w, i)'
  BY <1>1, <1>2, <1>3, <1>4 DEF Fits, Pending
<1> QED BY <1>3, <1>4, <1>5, Moves

\* A test case is read, then its script.
LEMMA ReadsKeep ==
  ASSUME ScriptInv, NEW w \in Workers, GetCase(w) \/ GetScript(w)
  PROVE  ScriptInv'
<1>1. KeepsLinks
  BY UnchangedKeeps DEF GetCase, GetScript, ScriptInv
<1>2. CASE GetCase(w)
  <2>1. At(w, 1) = "get_case" /\ job' = job
    BY <1>2 DEF GetCase
  <2>2. /\ 1 \in DOMAIN threads[w] /\ threads[w][1] \in Thread
        /\ job[w].at \in {"retrieve", "update"} /\ job[w].id \in DOMAIN cases
    BY <2>1, OneThread
  <2>3. PICK case \in Case : case = cases[job[w].id]
    <3>1. cases \in Seq(Case) /\ job[w].id \in 1 .. Len(cases)
      BY <2>2, LenProperties DEF ScriptInv, Shapes
    <3> QED BY <3>1, ElementOfSeq
  <2>4. case.script \in Nat /\ case.title \in Docs \cup {None}
    BY DEF Case
  <2> DEFINE x == IF job[w].at = "retrieve"
                    THEN [threads[w][1] EXCEPT !.script = case.script, !.doc = case.title,
                                               !.at = "get_script"]
                    ELSE [threads[w][1] EXCEPT !.script = case.script, !.at = "put_case"]
  <2>5. threads' = [threads EXCEPT ![w][1] = x]
    BY <1>2, <2>3 DEF GetCase
  <2>6. x \in Thread /\ x.at \in {"get_script", "put_case"}
    BY <2>2, <2>4 DEF Thread
  <2> HIDE DEF x
  <2> QED BY <1>1, <2>1, <2>2, <2>5, <2>6, Steps
<1>3. CASE GetScript(w)
  <2>1. At(w, 1) = "get_script" /\ Step(w, 1, "made") /\ \E got : GoWith(w, "sheet", got)
    BY <1>3 DEF GetScript
  <2> QED BY <1>1, <2>1, ThreadDone
<1> QED BY <1>2, <1>3

\* A test case is written, then its script: the link stays.
LEMMA PutsKeep ==
  ASSUME ScriptInv, NEW w \in Workers, PutCase(w) \/ PutScript(w) \/ PutLost(w)
  PROVE  ScriptInv'
<1>1. /\ 1 \in DOMAIN threads[w] /\ threads[w][1] \in Thread
      /\ job[w].at \in {"retrieve", "update"} /\ job[w].id \in DOMAIN cases
  BY OneThread DEF PutCase, PutScript, PutLost
<1>2. /\ cases \in Seq(Case) /\ scripts \in Seq(Script)
      /\ threads[w][1].doc \in Docs \cup {None}
  BY <1>1 DEF ScriptInv, Shapes, Thread
<1>3. CASE PutCase(w)
  <2> DEFINE y == [cases[job[w].id] EXCEPT !.title = threads[w][1].doc]
  <2>1. cases[job[w].id] \in Case
    BY <1>1, <1>2, LenProperties, ElementOfSeq
  <2>2. y \in Case /\ y.script = cases[job[w].id].script
    BY <1>2, <2>1 DEF Case
  <2>3. cases' = [cases EXCEPT ![job[w].id] = y] \/ cases' = cases
    BY <1>3 DEF PutCase
  <2> HIDE DEF y
  <2>4. KeepsLinks
    <3>1. CASE cases' = cases
      BY <1>2, <1>3, <3>1 DEF KeepsLinks, PutCase
    <3>2. CASE cases' = [cases EXCEPT ![job[w].id] = y]
      <4>1. cases' \in Seq(Case) /\ DOMAIN cases' = DOMAIN cases
        BY <1>2, <2>2, <3>2, Overwritten
      <4>2. \A c \in DOMAIN cases : cases'[c].script = cases[c].script
        BY <2>2, <3>2
      <4> QED BY <1>2, <1>3, <4>1, <4>2 DEF KeepsLinks, PutCase
    <3> QED BY <2>3, <3>1, <3>2
  <2>5. Step(w, 1, "put_script") /\ job' = job
    BY <1>3 DEF PutCase
  <2>6. PICK t \in Thread : threads' = [threads EXCEPT ![w][1] = t] /\ t.at = "put_script"
    BY <1>1, <2>5, StepIs DEF ScriptInv
  <2> QED BY <1>1, <2>4, <2>5, <2>6, Steps
<1>4. CASE PutScript(w) \/ PutLost(w)
  <2> DEFINE y == TestscriptTemplate(threads[w][1].doc)
             k == threads[w][1].script
  <2>1. y \in Script
    BY <1>2 DEF TestscriptTemplate, Script
  <2>2. (scripts' = [scripts EXCEPT ![k] = y] \/ scripts' = scripts) /\ cases' = cases
    BY <1>4 DEF PutScript, PutLost
  <2> HIDE DEF y, k
  <2>3. scripts' \in Seq(Script) /\ DOMAIN scripts' = DOMAIN scripts
    BY <1>2, <2>1, <2>2, Overwritten
  <2>4. KeepsLinks
    BY <1>2, <2>2, <2>3 DEF KeepsLinks
  <2>5. CASE PutScript(w)
    <3>1. At(w, 1) = "put_script" /\ Step(w, 1, "made") /\ Goto(w, "restore")
      BY <2>5 DEF PutScript
    <3> QED BY <2>4, <3>1, ThreadDone
  <2>6. CASE PutLost(w)
    BY <2>4, <2>6, Ends DEF PutLost
  <2> QED BY <1>4, <2>5, <2>6
<1> QED BY <1>3, <1>4

----
(* The theorem. *)

LEMMA ScriptInit == Init => ScriptInv
<1> SUFFICES ASSUME Init PROVE ScriptInv
  OBVIOUS
<1>1. PICK doc \in Docs :
        cases = <<TestcaseTemplate(doc, 1)>> /\ scripts = <<TestscriptTemplate(doc)>>
  BY DEF Init
<1>2. TestcaseTemplate(doc, 1) \in Case /\ TestcaseTemplate(doc, 1).script = 1
      /\ TestscriptTemplate(doc) \in Script
  BY DEF TestcaseTemplate, TestscriptTemplate, Case, Script
<1>3. /\ cases \in Seq(Case) /\ scripts \in Seq(Script)
      /\ DOMAIN cases = {1} /\ DOMAIN scripts = {1} /\ cases[1].script = 1
  BY <1>1, <1>2
<1>4. threads = [w \in Workers |-> << >>] /\ job = [w \in Workers |-> Idle]
  BY DEF Init
<1>5. Shapes /\ OwnScript
  BY <1>3, <1>4 DEF Shapes, OwnScript
<1>6. JobsFit
  BY <1>4 DEF JobsFit, Fits, Idle, Fields
<1>7. PendingIsFree /\ PendingApart
  BY <1>4 DEF PendingIsFree, PendingApart, Pending
<1> QED BY <1>5, <1>6, <1>7 DEF ScriptInv

LEMMA ScriptNext == ScriptInv /\ [Next]_vars => ScriptInv'
<1> SUFFICES ASSUME ScriptInv, [Next]_vars PROVE ScriptInv'
  OBVIOUS
<1>1. CASE Expire \/ UNCHANGED vars
  <2>1. UNCHANGED <<cases, scripts, job, threads>>
    BY <1>1 DEF Expire, vars, rqm
  <2> QED BY <2>1 DEF ScriptInv, Shapes, JobsFit, Fits, OwnScript, PendingIsFree,
                     PendingApart, Pending
<1>2. ASSUME NEW w \in Workers, RequestStep(w) PROVE ScriptInv'
  BY <1>2, BeginsKeep, CachesKeep, ReadsKeep, PutsKeep DEF RequestStep
<1>3. ASSUME NEW w \in Workers, NEW i \in 1 .. MaxItems, ThreadStep(w, i) PROVE ScriptInv'
  <2>1. i \in Nat
    BY BoundsAssumption
  <2> QED BY <1>3, <2>1, CallsKeep, PostScriptKeeps, PostCaseKeeps, PostLostKeeps DEF ThreadStep
<1> QED BY <1>1, <1>2, <1>3 DEF Next

\* Every test case on RQM links to a script that exists and is no other one's.
THEOREM EveryOwnScript == Spec => []OwnScript
<1>1. ScriptInv => OwnScript
  BY DEF ScriptInv
<1> QED BY <1>1, ScriptInit, ScriptNext, PTL DEF Spec

----
(* What listings name. *)

\* The entries are test cases there are, and their number is known.
Listed(l) == \A k \in DOMAIN l.entries : l.entries[k].id \in DOMAIN cases
Counted(l) == l.number = Len(l.entries)

\* Where a thread of a request is, and what it has.
Placed(at, t) ==
  /\ at = "create" => t.at \in {"login", "header", "post_script", "post_case"} \cup Ended
  /\ at = "append" => t.at \in Ended
  /\ at \in {"create", "append"} =>
       t.doc \in Docs /\ (t.at = "made" => t.id \in DOMAIN cases)
  /\ at = "retrieve" =>
       /\ t.at \in {"login", "header", "get_case", "get_script"}
       /\ t.at = "get_script" => t.doc \in Docs /\ t.script \in DOMAIN scripts
  /\ at = "update" => t.at \in {"login", "header", "get_case", "put_case", "put_script"}
  /\ at \in {"sheet", "restore", "reread", "rename"} => t.at = "made"
  /\ at \in {"update", "restore", "reread", "rename"} => t.doc \in Docs

\* What a request has.
Has(j, ts) ==
  /\ j.at \in {"idle", "list", "listed"} => ts = << >>
  /\ j.at \in {"list", "listed", "append", "rename"} => j.got \in Listing /\ Listed(j.got)
  /\ j.at = "list" => Len(j.got.entries) <= Len(cases)
  /\ j.at \in {"append", "rename"} => Counted(j.got)
  /\ j.at = "sheet" => j.got \in Sheet
  /\ j.at \in {"retrieve", "sheet", "update", "restore", "reread", "rename"} =>
       j.id \in DOMAIN cases /\ DOMAIN ts = {1}
  /\ \A i \in DOMAIN ts : Placed(j.at, ts[i])

\* The threads that may still add a test case, and the room there is for them.
Creates(w, i) ==
  job[w].at = "create" /\ i \in DOMAIN threads[w] /\ threads[w][i].at \notin Ended
Creating == {p \in Workers \X (1 .. MaxItems) : Creates(p[1], p[2])}
Room ==
  /\ IsFiniteSet(Creating)
  /\ Len(cases) + Cardinality(Creating) <= 1 + requests * MaxItems

ListsInv ==
  /\ TypeOK /\ Room
  /\ \A w \in Workers : Has(job[w], threads[w])
  /\ listing # None => Listed(listing) /\ Counted(listing)

----
(* The types. *)

CaseType == [title: Docs, script: Nat \ {0}]
ScriptType == [steps: Docs]
Stages == {"idle", "list", "listed", "create", "append", "retrieve", "sheet", "update",
           "restore", "reread", "rename"}
GotType == {None} \cup Listing \cup Sheet

\* The lengths and elements of what TypeOK gives types.
LEMMA Sequences ==
  ASSUME TypeOK
  PROVE  /\ Len(cases) \in Nat /\ DOMAIN cases = 1 .. Len(cases)
         /\ \A c \in DOMAIN cases : cases[c] \in CaseType
         /\ Len(scripts) \in Nat /\ DOMAIN scripts = 1 .. Len(scripts)
         /\ \A c \in DOMAIN scripts : scripts[c] \in ScriptType
         /\ \A w \in Workers :
              /\ threads[w] \in Seq(Thread) /\ Len(threads[w]) \in Nat
              /\ DOMAIN threads[w] = 1 .. Len(threads[w])
              /\ \A i \in DOMAIN threads[w] : threads[w][i] \in Thread
<1>1. /\ cases \in Seq(CaseType) /\ scripts \in Seq(ScriptType)
      /\ \A w \in Workers : threads[w] \in Seq(Thread)
  BY DEF TypeOK, CaseType, ScriptType
<1> QED BY <1>1, LenProperties, ElementOfSeq

\* RQM's resources keep their types.
RqmTyped == cases' \in Seq(CaseType) /\ scripts' \in Seq(ScriptType)

LEMMA JobTypes ==
  ASSUME TypeOK, NEW w \in Workers
  PROVE  /\ job[w] \in Job /\ job[w].at \in Stages /\ job[w].id \in CaseIds \cup {0}
         /\ job[w].got \in GotType
<1>1. job[w] \in Job
  BY DEF TypeOK
<1>2. Job = [at: Stages, id: CaseIds \cup {0}, got: GotType]
  BY DEF Job, Stages, GotType
<1> QED BY <1>1, <1>2

\* A job with another stage, another result.
LEMMA GoTypes ==
  ASSUME TypeOK, NEW w \in Workers, NEW at \in Stages, NEW got \in GotType,
         GoWith(w, at, got) \/ (Goto(w, at) /\ got = job[w].got)
  PROVE  /\ job' \in [Workers -> Job]
         /\ job'[w].at = at /\ job'[w].id = job[w].id /\ job'[w].got = got
         /\ \A v \in Workers : v # w => job'[v] = job[v]
<1>1. job[w].id \in CaseIds \cup {0} /\ job[w] \in Job /\ job[w].got \in GotType
  BY JobTypes
<1>2. Job = [at: Stages, id: CaseIds \cup {0}, got: GotType]
  BY DEF Job, Stages, GotType
<1>3. /\ [job[w] EXCEPT !.at = at, !.got = got] \in Job
      /\ [job[w] EXCEPT !.at = at, !.got = got].at = at
      /\ [job[w] EXCEPT !.at = at, !.got = got].id = job[w].id
      /\ [job[w] EXCEPT !.at = at, !.got = got].got = got
      /\ [job[w] EXCEPT !.at = at] \in Job
      /\ [job[w] EXCEPT !.at = at].at = at
      /\ [job[w] EXCEPT !.at = at].id = job[w].id
      /\ [job[w] EXCEPT !.at = at].got = job[w].got
  BY <1>1, <1>2
<1>4. job \in [Workers -> Job]
  BY DEF TypeOK
<1>5. CASE GoWith(w, at, got)
  <2>1. job' = [job EXCEPT ![w] = [job[w] EXCEPT !.at = at, !.got = got]]
    BY <1>4, <1>5 DEF GoWith
  <2> QED BY <1>3, <1>4, <2>1
<1>6. CASE Goto(w, at) /\ got = job[w].got
  <2>1. job' = [job EXCEPT ![w] = [job[w] EXCEPT !.at = at]]
    BY <1>4, <1>6 DEF Goto
  <2> QED BY <1>3, <1>4, <1>6, <2>1
<1> QED BY <1>5, <1>6

LEMMA IdleType == Idle \in Job /\ Idle.at = "idle" /\ Idle.id = 0 /\ Idle.got = None
BY DEF Idle, Job

LEMMA EndTypes ==
  ASSUME TypeOK, NEW w \in Workers, End(w)
  PROVE  /\ job' \in [Workers -> Job] /\ job'[w] = Idle
         /\ threads' \in [Workers -> Seq(Thread)] /\ threads'[w] = << >>
         /\ \A v \in Workers : v # w => job'[v] = job[v] /\ threads'[v] = threads[v]
<1>1. << >> \in Seq(Thread)
  BY EmptySeq
<1> QED BY <1>1, IdleType DEF End, TypeOK

----
(* Steps, by what they do to the lists. *)

\* RQM loses nothing.
Grows == DOMAIN cases \subseteq DOMAIN cases' /\ DOMAIN scripts \subseteq DOMAIN scripts'

\* What a request has it keeps while RQM grows.
LEMMA HasStays ==
  ASSUME ListsInv, RqmTyped, Grows, NEW w \in Workers,
         job'[w] = job[w], threads'[w] = threads[w]
  PROVE  Has(job[w], threads[w])'
<1>1. Has(job[w], threads[w])
  BY DEF ListsInv
<1>2. Len(cases) <= Len(cases') /\ Len(cases) \in Nat /\ Len(cases') \in Nat
  <2>1. DOMAIN cases = 1 .. Len(cases) /\ Len(cases) \in Nat
    BY Sequences DEF ListsInv
  <2>2. DOMAIN cases' = 1 .. Len(cases') /\ Len(cases') \in Nat
    BY LenProperties DEF RqmTyped
  <2> QED BY <2>1, <2>2 DEF Grows
<1>3. \A l : Listed(l) => Listed(l)'
  BY DEF Listed, Grows
<1>4. \A at, t : Placed(at, t) => Placed(at, t)'
  BY DEF Placed, Grows
<1>5. job[w].at = "list" => Len(job[w].got.entries) \in Nat
  <2>1. job[w].at = "list" => job[w].got.entries \in Seq(Entry)
    BY <1>1 DEF Has, Listing
  <2> QED BY <2>1, LenProperties
<1> QED BY <1>1, <1>2, <1>3, <1>4, <1>5 DEF Has, Counted, Listed

\* A worker moves on.
LEMMA ListsMove ==
  ASSUME ListsInv, NEW w \in Workers, RqmTyped, Grows, Room',
         job' \in [Workers -> Job], threads' \in [Workers -> Seq(Thread)],
         \A v \in Workers : v # w => threads'[v] = threads[v] /\ job'[v] = job[v],
         Has(job[w], threads[w])',
         matched' \in BOOLEAN, overlap' \in BOOLEAN,
         requests' \in 0 .. MaxRequests, faults' \in 0 .. MaxFaults,
         listing' \in {None} \cup Listing, sheets' \in [CaseIds -> {None} \cup Sheet],
         listing' # None => Listed(listing)' /\ Counted(listing)'
  PROVE  ListsInv'
<1>1. TypeOK'
  BY DEF TypeOK, RqmTyped, CaseType, ScriptType
<1>2. \A v \in Workers : Has(job[v], threads[v])'
  BY HasStays
<1> QED BY <1>1, <1>2 DEF ListsInv

----
(* The room. *)

LEMMA RoomIsNumber ==
  ASSUME ListsInv
  PROVE  /\ Cardinality(Creating) \in Nat /\ Len(cases) \in Nat
         /\ requests \in Nat /\ MaxItems \in Nat /\ requests * MaxItems \in Nat
<1>1. Cardinality(Creating) \in Nat
  BY FS_CardinalityType DEF ListsInv, Room
<1>2. Len(cases) \in Nat
  BY Sequences DEF ListsInv
<1>3. requests \in Nat /\ MaxItems \in Nat
  BY BoundsAssumption DEF ListsInv, TypeOK
<1>4. requests * MaxItems \in Nat
  BY <1>3
<1> QED BY <1>1, <1>2, <1>3, <1>4

\* There is room for the test cases that may still come.
LEMMA RoomIsLeft ==
  ASSUME ListsInv
  PROVE  DOMAIN cases \subseteq CaseIds
<1>1. /\ Cardinality(Creating) \in Nat /\ Len(cases) \in Nat /\ requests \in 0 .. MaxRequests
      /\ MaxItems \in Nat /\ MaxRequests \in Nat
  BY RoomIsNumber, BoundsAssumption DEF ListsInv, TypeOK
<1>2. ASSUME NEW a \in Nat, NEW b \in Nat, NEW m \in Nat, a <= b
      PROVE  a * m \in Nat /\ b * m \in Nat /\ a * m <= b * m
  <2>1. b = a + (b - a) /\ b - a \in Nat
    BY <1>2
  <2>2. b * m = a * m + (b - a) * m
    BY <2>1
  <2>3. (b - a) * m \in Nat /\ a * m \in Nat
    BY <2>1
  <2> QED BY <2>2, <2>3
<1>3. /\ requests * MaxItems \in Nat /\ MaxRequests * MaxItems \in Nat
      /\ requests * MaxItems <= MaxRequests * MaxItems
  <2>1. requests \in Nat /\ requests <= MaxRequests
    BY <1>1
  <2> QED BY <1>1, <1>2, <2>1
<1>4. Len(cases) <= 1 + requests * MaxItems
  <2>1. Len(cases) + Cardinality(Creating) <= 1 + requests * MaxItems
    BY DEF ListsInv, Room
  <2> QED BY <1>1, <1>3, <2>1
<1>5. DOMAIN cases = 1 .. Len(cases)
  BY Sequences DEF ListsInv
<1> QED BY <1>1, <1>3, <1>4, <1>5 DEF CaseIds

LEMMA CasesHaveIds == ListsInv => DOMAIN cases \subseteq CaseIds
BY RoomIsLeft

\* No thread more may add a test case.
LEMMA RoomStays ==
  ASSUME ListsInv, NEW w \in Workers, Len(cases') = Len(cases), requests' = requests,
         \A v \in Workers : v # w => threads'[v] = threads[v] /\ job'[v] = job[v],
         \A i \in 1 .. MaxItems : Creates(w, i)' => Creates(w, i)
  PROVE  Room'
<1>1. Creating' \subseteq Creating
  BY DEF Creating, Creates
<1>2. IsFiniteSet(Creating)
  BY DEF ListsInv, Room
<1>3. IsFiniteSet(Creating') /\ Cardinality(Creating') <= Cardinality(Creating)
  BY <1>1, <1>2, FS_Subset
<1>4. Cardinality(Creating') \in Nat
  BY <1>3, FS_CardinalityType
<1> HIDE DEF Creating
<1> QED BY <1>3, <1>4, RoomIsNumber DEF Room, ListsInv

\* A thread adds a test case, and will not add another.
LEMMA RoomTaken ==
  ASSUME ListsInv, NEW w \in Workers, NEW i \in 1 .. MaxItems,
         Len(cases') = Len(cases) + 1, requests' = requests,
         \A v \in Workers : v # w => threads'[v] = threads[v] /\ job'[v] = job[v],
         \A k \in 1 .. MaxItems : Creates(w, k)' => Creates(w, k) /\ k # i,
         Creates(w, i)
  PROVE  Room'
<1>1. Creating' \subseteq Creating \ {<<w, i>>} /\ <<w, i>> \in Creating
  BY DEF Creating, Creates
<1>2. IsFiniteSet(Creating)
  BY DEF ListsInv, Room
<1>3. /\ IsFiniteSet(Creating \ {<<w, i>>})
      /\ Cardinality(Creating \ {<<w, i>>}) = Cardinality(Creating) - 1
  BY <1>1, <1>2, FS_RemoveElement
<1>4. /\ IsFiniteSet(Creating')
      /\ Cardinality(Creating') <= Cardinality(Creating \ {<<w, i>>})
  BY <1>1, <1>3, FS_Subset
<1>5. Cardinality(Creating') \in Nat
  BY <1>4, FS_CardinalityType
<1> HIDE DEF Creating
<1> QED BY <1>3, <1>4, <1>5, RoomIsNumber DEF Room, ListsInv

\* A request brings its room.
LEMMA RoomBrought ==
  ASSUME ListsInv, NEW w \in Workers, Len(cases') = Len(cases), requests' = requests + 1,
         \A v \in Workers : v # w => threads'[v] = threads[v] /\ job'[v] = job[v]
  PROVE  Room'
<1> DEFINE Own == {w} \X (1 .. MaxItems)
<1>1. Creating' \subseteq Creating \cup Own
  BY DEF Creating, Creates
<1>2. IsFiniteSet(Creating) /\ MaxItems \in Nat /\ requests \in Nat
  BY RoomIsNumber DEF ListsInv, Room
<1>3. IsFiniteSet(Own) /\ Cardinality(Own) = MaxItems
  <2>1. IsFiniteSet({w}) /\ Cardinality({w}) = 1
    BY FS_Singleton
  <2>2. IsFiniteSet(1 .. MaxItems) /\ Cardinality(1 .. MaxItems) = MaxItems
    BY <1>2, FS_Interval
  <2>3. /\ IsFiniteSet(Own)
        /\ Cardinality(Own) = Cardinality({w}) * Cardinality(1 .. MaxItems)
    BY <2>1, <2>2, FS_Product, Zenon
  <2> HIDE DEF Own
  <2> QED BY <1>2, <2>1, <2>2, <2>3
<1>4. /\ IsFiniteSet(Creating \cup Own)
      /\ Cardinality(Creating \cup Own) <= Cardinality(Creating) + MaxItems
  <2>1. /\ IsFiniteSet(Creating \cup Own)
        /\ Cardinality(Creating \cup Own) =
             Cardinality(Creating) + Cardinality(Own) - Cardinality(Creating \cap Own)
    BY <1>2, <1>3, FS_Union
  <2>2. Cardinality(Creating \cap Own) \in Nat
    BY <1>2, FS_Intersection, FS_CardinalityType
  <2> HIDE DEF Own
  <2> QED BY <1>2, <1>3, <2>1, <2>2, FS_CardinalityType
<1>5. /\ IsFiniteSet(Creating')
      /\ Cardinality(Creating') <= Cardinality(Creating \cup Own)
  BY <1>1, <1>4, FS_Subset
<1>6. Cardinality(Creating') \in Nat /\ Cardinality(Creating \cup Own) \in Nat
  BY <1>4, <1>5, FS_CardinalityType
<1>7. (requests + 1) * MaxItems = requests * MaxItems + MaxItems
  BY <1>2
<1> HIDE DEF Creating, Own
<1> QED BY <1>2, <1>4, <1>5, <1>6, <1>7, RoomIsNumber DEF Room, ListsInv

----
(* The actions, for the lists. *)

LEMMA FaultTypes ==
  ASSUME TypeOK, NEW kind, Fault(kind)
  PROVE  faults' \in 0 .. MaxFaults /\ faults' # 0
BY BoundsAssumption DEF TypeOK, Fault

\* A request that has threads is at a stage that has them.
LEMMA PlacedThread ==
  ASSUME ListsInv, NEW w \in Workers, NEW i \in DOMAIN threads[w]
  PROVE  /\ job[w].at \notin {"idle", "list", "listed"}
         /\ Placed(job[w].at, threads[w][i]) /\ threads[w][i] \in Thread
<1>1. Has(job[w], threads[w])
  BY DEF ListsInv
<1>2. threads[w] # << >> /\ threads[w][i] \in Thread
  BY Sequences DEF ListsInv
<1> QED BY <1>1, <1>2 DEF Has

\* One thread steps.
LEMMA ThreadLists ==
  ASSUME ListsInv, ScriptInv, NEW w \in Workers, NEW i \in DOMAIN threads[w],
         NEW t \in Thread, threads' = [threads EXCEPT ![w][i] = t], job' = job,
         RqmTyped, Grows, Room', Placed(job[w].at, t)',
         matched' \in BOOLEAN, faults' \in 0 .. MaxFaults,
         UNCHANGED <<caches, requests, overlap>>
  PROVE  ListsInv'
<1>1. /\ threads' \in [Workers -> Seq(Thread)]
      /\ DOMAIN threads'[w] = DOMAIN threads[w] /\ threads'[w][i] = t
      /\ \A j \in DOMAIN threads[w] : j # i => threads'[w][j] = threads[w][j]
      /\ \A v \in Workers : v # w => threads'[v] = threads[v]
  BY ThreadMoves DEF ScriptInv
<1>2. Has(job[w], threads[w])'
  <2>1. Has(job[w], threads[w]) /\ job[w].at \notin {"idle", "list", "listed"}
    BY PlacedThread DEF ListsInv
  <2>2. \A at, x : Placed(at, x) => Placed(at, x)'
    BY DEF Placed, Grows
  <2> QED BY <1>1, <2>1, <2>2 DEF Has, Listed, Counted, Grows
<1>3. /\ listing' = listing /\ sheets' = sheets /\ requests' = requests /\ overlap' = overlap
  BY DEF caches
<1>4. listing' # None => Listed(listing)' /\ Counted(listing)'
  BY <1>3 DEF ListsInv, Listed, Counted, Grows
<1>5. /\ listing \in {None} \cup Listing /\ sheets \in [CaseIds -> {None} \cup Sheet]
      /\ requests \in 0 .. MaxRequests /\ overlap \in BOOLEAN /\ job \in [Workers -> Job]
  BY DEF ListsInv, TypeOK
<1> QED BY <1>1, <1>2, <1>3, <1>4, <1>5, ListsMove

LEMMA SameRqm == ASSUME ListsInv, UNCHANGED rqm PROVE RqmTyped /\ Grows
BY DEF ListsInv, TypeOK, RqmTyped, Grows, rqm, CaseType, ScriptType

\* Step, as the lists want it.
LEMMA StepLists ==
  ASSUME ListsInv, ScriptInv, NEW w \in Workers, NEW i \in DOMAIN threads[w],
         NEW at \in {"login", "header", "post_script", "post_case", "get_case", "get_script",
                     "put_case", "put_script", "made", "failed", "raised"},
         Step(w, i, at)
  PROVE  \E t \in Thread :
           /\ t.at = at /\ t.doc = threads[w][i].doc
           /\ t.id = threads[w][i].id /\ t.script = threads[w][i].script
           /\ threads' = [threads EXCEPT ![w][i] = t]
           /\ DOMAIN threads'[w] = DOMAIN threads[w] /\ threads'[w][i] = t
           /\ \A j \in DOMAIN threads[w] : j # i => threads'[w][j] = threads[w][j]
           /\ \A v \in Workers : v # w => threads'[v] = threads[v]
<1> DEFINE t == [threads[w][i] EXCEPT !.at = at]
<1>1. threads[w][i] \in Thread
  BY ThreadType DEF ScriptInv
<1>2. /\ t \in Thread /\ t.at = at /\ t.script = threads[w][i].script
      /\ t.doc = threads[w][i].doc /\ t.id = threads[w][i].id
  BY <1>1 DEF Thread
<1>3. threads' = [threads EXCEPT ![w][i] = t]
  BY DEF Step
<1> HIDE DEF t
<1>4. /\ DOMAIN threads'[w] = DOMAIN threads[w] /\ threads'[w][i] = t
      /\ \A j \in DOMAIN threads[w] : j # i => threads'[w][j] = threads[w][j]
      /\ \A v \in Workers : v # w => threads'[v] = threads[v]
  BY <1>2, <1>3, ThreadMoves DEF ScriptInv
<1> QED BY <1>2, <1>3, <1>4

\* A request ends.
LEMMA EndLists ==
  ASSUME ListsInv, NEW w \in Workers, End(w), RqmTyped, Grows,
         Len(cases') = Len(cases), requests' = requests, overlap' = overlap,
         matched' \in BOOLEAN, faults' \in 0 .. MaxFaults,
         listing' \in {None} \cup Listing, sheets' \in [CaseIds -> {None} \cup Sheet],
         listing' # None => Listed(listing)' /\ Counted(listing)'
  PROVE  ListsInv'
<1>1. /\ job' \in [Workers -> Job] /\ job'[w] = Idle
      /\ threads' \in [Workers -> Seq(Thread)] /\ threads'[w] = << >>
      /\ \A v \in Workers : v # w => job'[v] = job[v] /\ threads'[v] = threads[v]
  BY EndTypes DEF ListsInv
<1>2. Has(job[w], threads[w])'
  BY <1>1, IdleType DEF Has
<1>3. Room'
  BY <1>1, IdleType, RoomStays DEF Creates
<1>4. requests \in 0 .. MaxRequests /\ overlap \in BOOLEAN
  BY DEF ListsInv, TypeOK
<1> QED BY <1>1, <1>2, <1>3, <1>4, ListsMove

\* A request begins.
LEMMA BeginLists ==
  ASSUME ListsInv, NEW w \in Workers, NEW j \in Job, NEW ts \in Seq(Thread), Begin(w, j, ts),
         Has(j, ts)
  PROVE  ListsInv'
<1>1. /\ job \in [Workers -> Job] /\ threads \in [Workers -> Seq(Thread)]
      /\ requests \in 0 .. MaxRequests /\ overlap \in BOOLEAN /\ matched \in BOOLEAN
      /\ faults \in 0 .. MaxFaults /\ listing \in {None} \cup Listing
      /\ sheets \in [CaseIds -> {None} \cup Sheet]
      /\ listing # None => Listed(listing) /\ Counted(listing)
  BY DEF ListsInv, TypeOK
<1>2. /\ job' = [job EXCEPT ![w] = j] /\ threads' = [threads EXCEPT ![w] = ts]
      /\ requests' = requests + 1 /\ requests < MaxRequests
      /\ overlap' \in BOOLEAN /\ faults' = faults
      /\ cases' = cases /\ scripts' = scripts /\ matched' = matched
      /\ listing' = listing /\ sheets' = sheets
  BY DEF Begin, rqm, caches
<1>3. /\ job' \in [Workers -> Job] /\ job'[w] = j
      /\ threads' \in [Workers -> Seq(Thread)] /\ threads'[w] = ts
      /\ \A v \in Workers : v # w => job'[v] = job[v] /\ threads'[v] = threads[v]
  BY <1>1, <1>2
<1>4. Has(job[w], threads[w])'
  BY <1>2, <1>3 DEF Has, Listed, Counted, Placed
<1>5. requests' \in 0 .. MaxRequests
  BY <1>1, <1>2, BoundsAssumption
<1>6. Room'
  BY <1>2, <1>3, RoomBrought
<1>7. RqmTyped /\ Grows
  BY <1>2, SameRqm DEF rqm
<1>8. listing' # None => Listed(listing)' /\ Counted(listing)'
  BY <1>1, <1>2 DEF Listed, Counted
<1> QED BY <1>1, <1>2, <1>3, <1>4, <1>5, <1>6, <1>7, <1>8, ListsMove

\* A request goes on with its threads as they are.
LEMMA GoLists ==
  ASSUME ListsInv, NEW w \in Workers, NEW at \in Stages \ {"create"}, NEW got \in GotType,
         GoWith(w, at, got) \/ (Goto(w, at) /\ got = job[w].got),
         UNCHANGED <<rqm, matched, threads, requests, overlap>>,
         Has([at |-> at, id |-> job[w].id, got |-> got], threads[w]),
         faults' \in 0 .. MaxFaults, sheets' \in [CaseIds -> {None} \cup Sheet],
         listing' = listing
  PROVE  ListsInv'
<1>1. /\ job' \in [Workers -> Job]
      /\ job'[w].at = at /\ job'[w].id = job[w].id /\ job'[w].got = got
      /\ \A v \in Workers : v # w => job'[v] = job[v]
  BY GoTypes DEF ListsInv
<1>2. /\ cases' = cases /\ scripts' = scripts /\ threads' = threads
      /\ requests' = requests /\ overlap' = overlap /\ matched' = matched
  BY DEF rqm
<1>3. Has(job[w], threads[w])'
  BY <1>1, <1>2 DEF Has, Listed, Counted, Placed
<1>4. Room'
  BY <1>1, <1>2, RoomStays DEF Creates
<1>5. RqmTyped /\ Grows
  BY <1>2, SameRqm DEF rqm
<1>6. /\ threads \in [Workers -> Seq(Thread)] /\ matched \in BOOLEAN
      /\ requests \in 0 .. MaxRequests /\ overlap \in BOOLEAN
      /\ listing \in {None} \cup Listing
      /\ listing # None => Listed(listing) /\ Counted(listing)
  BY DEF ListsInv, TypeOK
<1>7. listing' # None => Listed(listing)' /\ Counted(listing)'
  BY <1>2, <1>6 DEF Listed, Counted
<1> QED BY <1>1, <1>2, <1>3, <1>4, <1>5, <1>6, <1>7, ListsMove

\* Logins, failures and refusals.
LEMMA CallsLists ==
  ASSUME ListsInv, ScriptInv, NEW w \in Workers, NEW i,
         Login(w, i) \/ LoginRefused(w, i) \/ SetHeader(w, i) \/ Raise(w, i) \/ PostRefused(w, i)
  PROVE  ListsInv'
<1>1. /\ i \in DOMAIN threads[w] /\ At(w, i) = threads[w][i].at
      /\ threads[w][i].at \notin Ended
  BY AtIsThread DEF Login, LoginRefused, SetHeader, Raise, PostRefused, Posting, Ended
<1>2. /\ RqmTyped /\ Grows /\ cases' = cases
      /\ listing' = listing /\ sheets' = sheets /\ requests' = requests /\ overlap' = overlap
  BY SameRqm DEF Login, LoginRefused, SetHeader, Raise, PostRefused, rqm, caches, history
<1>3. matched' \in BOOLEAN /\ faults' \in 0 .. MaxFaults
  BY FaultTypes DEF Login, LoginRefused, SetHeader, Raise, PostRefused, history, ListsInv, TypeOK
<1>4. /\ Placed(job[w].at, threads[w][i]) /\ job[w].at \in Stages
      /\ job[w].at \notin {"idle", "list", "listed"}
  BY <1>1, PlacedThread, JobTypes DEF ListsInv
<1>5. CASE Raise(w, i) /\ job[w].at # "create"
  <2>1. End(w)
    BY <1>5 DEF Raise
  <2>2. /\ listing \in {None} \cup Listing /\ sheets \in [CaseIds -> {None} \cup Sheet]
        /\ listing # None => Listed(listing) /\ Counted(listing)
    BY DEF ListsInv, TypeOK
  <2>3. listing' # None => Listed(listing)' /\ Counted(listing)'
    BY <1>2, <2>2 DEF Listed, Counted
  <2> QED BY <1>2, <1>3, <2>1, <2>2, <2>3, EndLists
<1>6. CASE ~ (Raise(w, i) /\ job[w].at # "create")
  <2>1. PICK at \in {"header", "post_script", "get_case", "failed", "raised"} :
          /\ Step(w, i, at) /\ job' = job
          /\ at \in {"header", "get_case", "post_script"} => threads[w][i].at \in {"login", "header"}
          /\ at = "get_case" => job[w].at # "create"
          /\ at \in {"post_script", "raised"} => job[w].at = "create"
          /\ at = "failed" => threads[w][i].at \in {"post_script", "post_case"}
    BY <1>1, <1>6 DEF Login, LoginRefused, SetHeader, Raise, PostRefused, FirstCall, Posting
  <2>2. PICK t \in Thread :
        /\ t.at = at /\ t.doc = threads[w][i].doc
        /\ t.id = threads[w][i].id /\ t.script = threads[w][i].script
        /\ threads' = [threads EXCEPT ![w][i] = t]
        /\ DOMAIN threads'[w] = DOMAIN threads[w]
        /\ \A j \in DOMAIN threads[w] : j # i => threads'[w][j] = threads[w][j]
        /\ \A v \in Workers : v # w => threads'[v] = threads[v]
    BY <1>1, <2>1, StepLists
  <2>3. Placed(job[w].at, t)'
    BY <1>2, <1>4, <2>1, <2>2 DEF Placed, Ended, Stages
  <2>4. Room'
    BY <1>1, <1>2, <2>1, <2>2, RoomStays DEF Creates
  <2> QED BY <1>1, <1>2, <1>3, <2>1, <2>2, <2>3, <2>4, ThreadLists DEF caches
<1> QED BY <1>5, <1>6

\* A thread that posts is of a creation.
LEMMA PostingCreates ==
  ASSUME ListsInv, NEW w \in Workers, NEW i, Posting(w, i)
  PROVE  /\ i \in DOMAIN threads[w] /\ At(w, i) = threads[w][i].at
         /\ job[w].at = "create" /\ Creates(w, i)
         /\ threads[w][i] \in Thread /\ threads[w][i].doc \in Docs
<1>1. i \in DOMAIN threads[w] /\ At(w, i) = threads[w][i].at
  BY AtIsThread DEF Posting
<1>2. /\ Placed(job[w].at, threads[w][i]) /\ job[w].at \in Stages /\ threads[w][i] \in Thread
      /\ job[w].at \notin {"idle", "list", "listed"}
  BY <1>1, PlacedThread, JobTypes DEF ListsInv
<1>3. job[w].at = "create"
  BY <1>1, <1>2 DEF Posting, Placed, Stages, Ended
<1> QED BY <1>1, <1>2, <1>3 DEF Posting, Placed, Creates, Ended

\* The test cases or the scripts have one more.
LEMMA OneMoreCase ==
  ASSUME ListsInv, NEW y \in CaseType, cases' = Append(cases, y), scripts' = scripts
  PROVE  RqmTyped /\ Grows /\ Len(cases') = Len(cases) + 1 /\ Len(cases) + 1 \in DOMAIN cases'
<1>1. cases \in Seq(CaseType) /\ scripts \in Seq(ScriptType)
  BY DEF ListsInv, TypeOK, CaseType, ScriptType
<1>2. /\ cases' \in Seq(CaseType) /\ Len(cases) \in Nat /\ Len(cases') = Len(cases) + 1
      /\ DOMAIN cases = 1 .. Len(cases) /\ DOMAIN cases' = 1 .. Len(cases) + 1
  BY <1>1, Appended, AppendProperties
<1> QED BY <1>1, <1>2 DEF RqmTyped, Grows

LEMMA OneMoreScript ==
  ASSUME ListsInv, NEW y \in ScriptType, scripts' = Append(scripts, y), cases' = cases
  PROVE  RqmTyped /\ Grows
<1>1. cases \in Seq(CaseType) /\ scripts \in Seq(ScriptType)
  BY DEF ListsInv, TypeOK, CaseType, ScriptType
<1>2. /\ scripts' \in Seq(ScriptType) /\ Len(scripts) \in Nat
      /\ DOMAIN scripts = 1 .. Len(scripts) /\ DOMAIN scripts' = 1 .. Len(scripts) + 1
  BY <1>1, Appended
<1> QED BY <1>1, <1>2 DEF RqmTyped, Grows

LEMMA PostScriptLists ==
  ASSUME ListsInv, ScriptInv, NEW w \in Workers, NEW i, PostScript(w, i)
  PROVE  ListsInv'
<1> DEFINE y == TestscriptTemplate(threads[w][i].doc)
<1>1. /\ i \in DOMAIN threads[w] /\ job[w].at = "create" /\ Creates(w, i)
      /\ threads[w][i] \in Thread /\ threads[w][i].doc \in Docs
  BY PostingCreates DEF PostScript, Posting
<1>2. /\ scripts' = Append(scripts, y) /\ cases' = cases /\ job' = job
      /\ threads' = [threads EXCEPT ![w][i] =
                       [threads[w][i] EXCEPT !.at = "post_case", !.script = NewId(scripts)]]
      /\ UNCHANGED <<matched, caches, requests, overlap, faults>>
  BY DEF PostScript, history
<1>3. y \in ScriptType
  BY <1>1 DEF TestscriptTemplate, ScriptType
<1>4. PICK x \in Thread :
        /\ x.at = "post_case" /\ x.doc \in Docs
        /\ x = [threads[w][i] EXCEPT !.at = "post_case", !.script = NewId(scripts)]
  <2>1. NewId(scripts) \in Nat
    BY Sequences DEF ListsInv, NewId
  <2> QED BY <1>1, <2>1 DEF Thread
<1> HIDE DEF y
<1>5. RqmTyped /\ Grows
  BY <1>2, <1>3, OneMoreScript
<1>6. Placed(job[w].at, x)'
  BY <1>1, <1>2, <1>4 DEF Placed
<1>7. Room'
  <2>1. /\ DOMAIN threads'[w] = DOMAIN threads[w]
        /\ \A j \in DOMAIN threads[w] : j # i => threads'[w][j] = threads[w][j]
        /\ \A v \in Workers : v # w => threads'[v] = threads[v]
    BY <1>1, <1>2, <1>4, ThreadMoves DEF ScriptInv
  <2> QED BY <1>1, <1>2, <2>1, RoomStays DEF Creates
<1> QED BY <1>1, <1>2, <1>4, <1>5, <1>6, <1>7, ThreadLists DEF ListsInv, TypeOK

\* A test case is there, and its thread is done.
LEMMA CaseLists ==
  ASSUME ListsInv, ScriptInv, NEW w \in Workers, NEW i \in 1 .. MaxItems, Posting(w, i),
         At(w, i) = "post_case",
         cases' = Append(cases, TestcaseTemplate(threads[w][i].doc, threads[w][i].script)),
         scripts' = scripts, job' = job, NEW x \in Thread, x.at \in Ended,
         x.doc = threads[w][i].doc, x.at = "made" => x.id = Len(cases) + 1,
         threads' = [threads EXCEPT ![w][i] = x],
         faults' \in 0 .. MaxFaults, UNCHANGED <<matched, caches, requests, overlap>>
  PROVE  ListsInv'
<1>1. /\ i \in DOMAIN threads[w] /\ job[w].at = "create" /\ Creates(w, i)
      /\ threads[w][i] \in Thread /\ threads[w][i].doc \in Docs
      /\ threads[w][i].at = "post_case"
  BY PostingCreates
<1>2. TestcaseTemplate(threads[w][i].doc, threads[w][i].script) \in CaseType
  <2>1. threads[w][i].script \in DOMAIN scripts
    BY <1>1, BoundsAssumption DEF ScriptInv, PendingIsFree, Pending
  <2>2. DOMAIN scripts = 1 .. Len(scripts) /\ Len(scripts) \in Nat
    BY Sequences DEF ListsInv
  <2> QED BY <1>1, <2>1, <2>2 DEF TestcaseTemplate, CaseType
<1>3. RqmTyped /\ Grows /\ Len(cases') = Len(cases) + 1 /\ Len(cases) + 1 \in DOMAIN cases'
  BY <1>2, OneMoreCase
<1>4. Placed(job[w].at, x)'
  BY <1>1, <1>3 DEF Placed
<1>5. Room'
  <2>1. /\ DOMAIN threads'[w] = DOMAIN threads[w] /\ threads'[w][i] = x
        /\ \A j \in DOMAIN threads[w] : j # i => threads'[w][j] = threads[w][j]
        /\ \A v \in Workers : v # w => threads'[v] = threads[v]
    BY <1>1, ThreadMoves DEF ScriptInv
  <2>2. \A k \in 1 .. MaxItems : Creates(w, k)' => Creates(w, k) /\ k # i
    BY <1>1, <2>1 DEF Creates
  <2> QED BY <1>1, <1>3, <2>1, <2>2, RoomTaken
<1> QED BY <1>1, <1>3, <1>4, <1>5, ThreadLists DEF ListsInv, TypeOK

LEMMA PostCaseLists ==
  ASSUME ListsInv, ScriptInv, NEW w \in Workers, NEW i \in 1 .. MaxItems, PostCase(w, i)
  PROVE  ListsInv'
<1>1. Posting(w, i) /\ At(w, i) = "post_case" /\ threads[w][i] \in Thread
  BY PostingCreates DEF PostCase, Posting
<1>2. PICK x \in Thread :
        /\ x.at = "made" /\ x.doc = threads[w][i].doc /\ x.id = Len(cases) + 1
        /\ x = [threads[w][i] EXCEPT !.at = "made", !.id = NewId(cases)]
  <2>1. NewId(cases) \in Nat /\ NewId(cases) = Len(cases) + 1
    BY Sequences DEF ListsInv, NewId
  <2> QED BY <1>1, <2>1 DEF Thread
<1>3. threads' = [threads EXCEPT ![w][i] = x]
  BY <1>2 DEF PostCase
<1>4. /\ cases' = Append(cases, TestcaseTemplate(threads[w][i].doc, threads[w][i].script))
      /\ scripts' = scripts /\ job' = job
      /\ UNCHANGED <<matched, caches, requests, overlap, faults>>
  BY DEF PostCase, history
<1>5. x.at \in Ended
  BY <1>2 DEF Ended
<1>6. faults \in 0 .. MaxFaults
  BY DEF ListsInv, TypeOK
<1> QED BY <1>1, <1>2, <1>3, <1>4, <1>5, <1>6, CaseLists

LEMMA PostLostLists ==
  ASSUME ListsInv, ScriptInv, NEW w \in Workers, NEW i \in 1 .. MaxItems, PostLost(w, i)
  PROVE  ListsInv'
<1>1. PICK at \in {"failed", "raised"} : Step(w, i, at)
  BY DEF PostLost
<1>2. /\ Posting(w, i) /\ i \in DOMAIN threads[w] /\ At(w, i) = threads[w][i].at
      /\ job[w].at = "create" /\ Creates(w, i)
      /\ threads[w][i] \in Thread /\ threads[w][i].doc \in Docs
  BY PostingCreates DEF PostLost
<1>3. PICK x \in Thread :
      /\ x.at = at /\ x.doc = threads[w][i].doc
      /\ threads' = [threads EXCEPT ![w][i] = x]
      /\ DOMAIN threads'[w] = DOMAIN threads[w] /\ threads'[w][i] = x
      /\ \A j \in DOMAIN threads[w] : j # i => threads'[w][j] = threads[w][j]
      /\ \A v \in Workers : v # w => threads'[v] = threads[v]
  BY <1>1, <1>2, StepLists
<1>4. /\ faults' \in 0 .. MaxFaults /\ job' = job
      /\ UNCHANGED <<matched, caches, requests, overlap>>
  BY FaultTypes DEF PostLost, ListsInv
<1>5. CASE threads[w][i].at = "post_case"
  BY <1>2, <1>3, <1>4, <1>5, CaseLists DEF PostLost, Ended
<1>6. CASE threads[w][i].at # "post_case"
  <2>1. /\ scripts' = Append(scripts, TestscriptTemplate(threads[w][i].doc))
        /\ cases' = cases
    BY <1>2, <1>6 DEF PostLost, Posting
  <2>2. TestscriptTemplate(threads[w][i].doc) \in ScriptType
    BY <1>2 DEF TestscriptTemplate, ScriptType
  <2>3. RqmTyped /\ Grows
    BY <2>1, <2>2, OneMoreScript
  <2>4. Placed(job[w].at, x)'
    BY <1>2, <1>3, <1>4 DEF Placed, Ended
  <2>5. Room'
    BY <1>2, <1>3, <1>4, <2>1, RoomStays DEF Creates
  <2> QED BY <1>2, <1>3, <1>4, <2>3, <2>4, <2>5, ThreadLists DEF ListsInv, TypeOK
<1> QED BY <1>5, <1>6

\* What begins.
LEMMA BeginsLists ==
  ASSUME ListsInv, NEW w \in Workers, List(w) \/ Create(w) \/ Retrieve(w) \/ Update(w)
  PROVE  ListsInv'
<1>1. CASE List(w)
  <2> DEFINE got == [entries |-> << >>, number |-> 0, success |-> TRUE]
             j == [Idle EXCEPT !.at = "list", !.got = got]
  <2>1. got \in Listing /\ got.entries = << >>
    BY EmptySeq DEF Listing
  <2>2. Begin(w, j, << >>)
    BY <1>1 DEF List
  <2> HIDE DEF got
  <2>3. j \in Job /\ j.at = "list" /\ j.got = got
    BY <2>1, IdleType DEF Idle, Job
  <2> HIDE DEF j
  <2>4. << >> \in Seq(Thread) /\ Len(<< >>) = 0 /\ Len(cases) \in Nat /\ DOMAIN << >> = {}
    BY EmptySeq, Sequences DEF ListsInv
  <2>5. Has(j, << >>)
    BY <2>1, <2>3, <2>4 DEF Has, Listed
  <2> QED BY <2>2, <2>3, <2>4, <2>5, BeginLists
<1>2. CASE Create(w)
  <2>1. PICK docs \in DocLists :
          Begin(w, [Idle EXCEPT !.at = "create"], [i \in DOMAIN docs |-> NewThread(docs[i])])
    BY <1>2 DEF Create
  <2> DEFINE j == [Idle EXCEPT !.at = "create"]
             ts == [i \in DOMAIN docs |-> NewThread(docs[i])]
  <2>2. PICK n \in 1 .. MaxItems : docs \in [1 .. n -> Docs]
    BY <2>1 DEF DocLists
  <2>3. \A d \in Docs :
          NewThread(d) \in Thread /\ NewThread(d).at = "login" /\ NewThread(d).doc = d
    BY DEF NewThread, Thread
  <2>4. ts \in [1 .. n -> Thread] /\ \A i \in DOMAIN ts : ts[i].at = "login" /\ ts[i].doc \in Docs
    BY <2>2, <2>3
  <2>5. n \in Nat
    BY <2>2, BoundsAssumption
  <2>6. j \in Job /\ j.at = "create"
    BY IdleType DEF Idle, Job
  <2> HIDE DEF ts, j
  <2>7. ts \in Seq(Thread)
    BY <2>4, <2>5, SeqDef
  <2>8. Has(j, ts)
    BY <2>4, <2>6 DEF Has, Placed
  <2> QED BY <2>1, <2>6, <2>7, <2>8, BeginLists DEF ts, j
<1>3. CASE Retrieve(w)
  <2>1. PICK id \in DOMAIN cases :
          Begin(w, [Idle EXCEPT !.at = "retrieve", !.id = id], <<NewThread(None)>>)
    BY <1>3 DEF Retrieve
  <2> DEFINE j == [Idle EXCEPT !.at = "retrieve", !.id = id]
             ts == <<NewThread(None)>>
  <2>2. j \in Job /\ j.at = "retrieve" /\ j.id = id
    BY RoomIsLeft DEF Idle, Job
  <2>3. NewThread(None) \in Thread /\ NewThread(None).at = "login"
    BY DEF NewThread, Thread
  <2>4. ts \in Seq(Thread) /\ DOMAIN ts = {1} /\ ts[1].at = "login"
    BY <2>3
  <2> HIDE DEF ts, j
  <2>5. Has(j, ts)
    BY <2>2, <2>4 DEF Has, Placed
  <2> QED BY <2>1, <2>2, <2>4, <2>5, BeginLists DEF ts, j
<1>4. CASE Update(w)
  <2>1. PICK id \in DOMAIN cases, doc \in Docs :
          Begin(w, [Idle EXCEPT !.at = "update", !.id = id], <<NewThread(doc)>>)
    BY <1>4 DEF Update
  <2> DEFINE j == [Idle EXCEPT !.at = "update", !.id = id]
             ts == <<NewThread(doc)>>
  <2>2. j \in Job /\ j.at = "update" /\ j.id = id
    BY RoomIsLeft DEF Idle, Job
  <2>3. NewThread(doc) \in Thread /\ NewThread(doc).at = "login" /\ NewThread(doc).doc = doc
    BY DEF NewThread, Thread
  <2>4. ts \in Seq(Thread) /\ DOMAIN ts = {1} /\ ts[1].at = "login" /\ ts[1].doc \in Docs
    BY <2>3
  <2> HIDE DEF ts, j
  <2>5. Has(j, ts)
    BY <2>2, <2>4 DEF Has, Placed
  <2> QED BY <2>1, <2>2, <2>4, <2>5, BeginLists DEF ts, j
<1> QED BY <1>1, <1>2, <1>3, <1>4

----
(* Listings. *)

LEMMA ListingTypes ==
  ASSUME NEW l \in Listing
  PROVE  /\ l.entries \in Seq(Entry) /\ l.number \in Nat /\ l.success \in BOOLEAN
         /\ Len(l.entries) \in Nat /\ DOMAIN l.entries = 1 .. Len(l.entries)
         /\ \A k \in DOMAIN l.entries : l.entries[k] \in Entry
<1>1. /\ l.entries \in Seq(Entry) /\ l.number \in Nat /\ l.success \in BOOLEAN
  BY DEF Listing
<1> QED BY <1>1, LenProperties, ElementOfSeq

LEMMA ListingUpdates ==
  ASSUME NEW l \in Listing, NEW es \in Seq(Entry), NEW n \in Nat
  PROVE  /\ [l EXCEPT !.entries = es] \in Listing
         /\ [l EXCEPT !.entries = es].entries = es
         /\ [l EXCEPT !.entries = es].number = l.number
         /\ [l EXCEPT !.number = n] \in Listing
         /\ [l EXCEPT !.number = n].entries = l.entries
         /\ [l EXCEPT !.number = n].number = n
         /\ [l EXCEPT !.entries = es, !.number = n] \in Listing
         /\ [l EXCEPT !.entries = es, !.number = n].entries = es
         /\ [l EXCEPT !.entries = es, !.number = n].number = n
         /\ [l EXCEPT !.success = FALSE, !.entries = es] \in Listing
         /\ [l EXCEPT !.success = FALSE, !.entries = es].entries = es
BY DEF Listing

\* Two lists of entries, one after the other.
LEMMA Joined ==
  ASSUME NEW S, NEW s \in Seq(S), NEW t \in Seq(S)
  PROVE  /\ s \o t \in Seq(S) /\ Len(s \o t) = Len(s) + Len(t)
         /\ Len(s) \in Nat /\ Len(t) \in Nat
         /\ \A k \in 1 .. Len(s) : (s \o t)[k] = s[k]
         /\ \A k \in 1 .. Len(t) : (s \o t)[Len(s) + k] = t[k]
<1>1. /\ s \o t \in Seq(S) /\ Len(s \o t) = Len(s) + Len(t)
      /\ \A k \in 1 .. Len(s) + Len(t) :
           (s \o t)[k] = IF k <= Len(s) THEN s[k] ELSE t[k - Len(s)]
  BY ConcatProperties
<1>2. Len(s) \in Nat /\ Len(t) \in Nat
  BY LenProperties
<1>3. \A k \in 1 .. Len(s) : k \in 1 .. Len(s) + Len(t) /\ k <= Len(s)
  BY <1>2
<1>4. \A k \in 1 .. Len(t) :
        /\ Len(s) + k \in 1 .. Len(s) + Len(t) /\ ~(Len(s) + k <= Len(s))
        /\ Len(s) + k - Len(s) = k
  BY <1>2
<1> QED BY <1>1, <1>2, <1>3, <1>4

\* The test cases of a page.
LEMMA TitlesAre ==
  ASSUME ListsInv, NEW n \in Nat, NEW last \in Nat, n <= last, last <= Len(cases)
  PROVE  /\ Titles(n + 1, last) \in Seq(Entry)
         /\ Len(Titles(n + 1, last)) = last - n
         /\ \A k \in 1 .. last - n :
              Titles(n + 1, last)[k] = [id |-> n + k, name |-> cases[n + k].title]
<1>1. Len(cases) \in Nat /\ DOMAIN cases = 1 .. Len(cases)
      /\ \A c \in DOMAIN cases : cases[c].title \in Docs
  BY Sequences DEF ListsInv, CaseType
<1>2. last - n \in Nat /\ last - (n + 1) + 1 = last - n
      /\ \A k \in 1 .. last - n : n + k \in DOMAIN cases /\ (n + 1) + k - 1 = n + k
  BY <1>1
<1>3. Titles(n + 1, last) = [k \in 1 .. last - n |->
                               [id |-> n + k, name |-> cases[n + k].title]]
  BY <1>2 DEF Titles
<1>4. \A k \in 1 .. last - n : [id |-> n + k, name |-> cases[n + k].title] \in Entry
  BY <1>1, <1>2, RoomIsLeft DEF Entry
<1>5. Titles(n + 1, last) \in [1 .. last - n -> Entry]
  BY <1>3, <1>4
<1>6. Titles(n + 1, last) \in Seq(Entry) /\ Len(Titles(n + 1, last)) = last - n
  BY <1>2, <1>5, SeqDef, LenProperties
<1> QED BY <1>3, <1>6

\* What a page adds to the ones before.
LEMMA PageRead ==
  ASSUME ListsInv, NEW w \in Workers, FetchPage(w)
  PROVE  \E got \in Listing, n \in Nat, last \in Nat :
           /\ n = Len(job[w].got.entries) /\ n <= last /\ last <= Len(cases)
           /\ Len(got.entries) = last
           /\ \A k \in 1 .. n : got.entries[k] = job[w].got.entries[k]
           /\ \A k \in n + 1 .. last : got.entries[k] = [id |-> k, name |-> cases[k].title]
           /\ \/ GoWith(w, "list", got) /\ last < Len(cases)
              \/ GoWith(w, "listed", got) /\ last = Len(cases)
<1> DEFINE old == job[w].got
           n == Len(old.entries)
           last == IF n + PageSize < Len(cases) THEN n + PageSize ELSE Len(cases)
           got == [old EXCEPT !.entries = @ \o Titles(n + 1, last)]
<1>1. /\ old \in Listing /\ n <= Len(cases) /\ n \in Nat /\ Len(cases) \in Nat
      /\ old.entries \in Seq(Entry)
  <2>1. Has(job[w], threads[w]) /\ job[w].at = "list"
    BY DEF ListsInv, FetchPage
  <2> QED BY <2>1, ListingTypes, Sequences DEF Has, ListsInv
<1>2. last \in Nat /\ n <= last /\ last <= Len(cases)
      /\ (last < Len(cases) \/ last = Len(cases))
  BY <1>1, BoundsAssumption
<1>3. \/ GoWith(w, "list", got) /\ last < Len(cases)
      \/ GoWith(w, "listed", got) /\ last = Len(cases)
  BY <1>2 DEF FetchPage
<1>4. got = [old EXCEPT !.entries = old.entries \o Titles(n + 1, last)]
  BY <1>1 DEF Listing
<1> HIDE DEF old, last, got
<1>5. /\ Titles(n + 1, last) \in Seq(Entry) /\ Len(Titles(n + 1, last)) = last - n
      /\ \A k \in 1 .. last - n :
           Titles(n + 1, last)[k] = [id |-> n + k, name |-> cases[n + k].title]
  BY <1>1, <1>2, TitlesAre
<1> DEFINE page == Titles(n + 1, last)
           all == old.entries \o page
<1> HIDE DEF page
<1>6. /\ page \in Seq(Entry) /\ Len(page) = last - n
      /\ \A k \in 1 .. last - n : page[k] = [id |-> n + k, name |-> cases[n + k].title]
      /\ got = [old EXCEPT !.entries = all]
  BY <1>4, <1>5 DEF page
<1>7. /\ all \in Seq(Entry) /\ Len(all) = n + Len(page)
      /\ \A k \in 1 .. n : all[k] = old.entries[k]
      /\ \A k \in 1 .. Len(page) : all[n + k] = page[k]
  BY <1>1, <1>6, Joined
<1> HIDE DEF all, n
<1>8. got \in Listing /\ got.entries = all
  BY <1>1, <1>6, <1>7, ListingUpdates
<1>9. ASSUME NEW k \in n + 1 .. last
      PROVE  all[k] = [id |-> k, name |-> cases[k].title]
  <2>1. k - n \in 1 .. last - n /\ n + (k - n) = k
    BY <1>1, <1>2
  <2> QED BY <1>6, <1>7, <2>1
<1>10. Len(all) = last
  BY <1>1, <1>2, <1>6, <1>7
<1> QED BY <1>1, <1>2, <1>3, <1>7, <1>8, <1>9, <1>10 DEF old, n

\* The threads that made their test case, in the order of the documents.
LEMMA MadeAre ==
  ASSUME ListsInv, NEW w \in Workers
  PROVE  /\ Made(threads[w]) \in Seq(Thread)
         /\ \E f \in Bijection(1 .. Len(Made(threads[w])),
                               {i \in DOMAIN threads[w] : threads[w][i].at = "made"}) :
              \A k \in 1 .. Len(Made(threads[w])) : Made(threads[w])[k] = threads[w][f[k]]
<1> DEFINE ts == threads[w]
           I == {i \in DOMAIN ts : ts[i].at = "made"}
<1>1. ts \in Seq(Thread) /\ I \cap (1 .. Len(ts)) = I /\ Made(ts) = Select(ts, I)
  BY Sequences DEF ListsInv, Made
<1> HIDE DEF ts, I
<1>2. /\ Made(ts) \in Seq(Thread)
      /\ \E f : Corresponds(f, ts, I, Len(ts), Made(ts))
  BY <1>1, SelectCorresponds
<1>3. PICK f : Corresponds(f, ts, I, Len(ts), Made(ts))
  BY <1>2
<1> QED BY <1>1, <1>2, <1>3 DEF Corresponds, ts, I

\* The listing gets an entry for each of them.
LEMMA EntriesAppended ==
  ASSUME ListsInv, NEW w \in Workers, job[w].at = "append"
  PROVE  LET got == job[w].got
             made == Made(threads[w])
             new == Extended(got, made)
         IN /\ new \in Listing /\ got \in Listing
            /\ Len(made) \in Nat /\ Len(got.entries) \in Nat
            /\ Len(new.entries) = Len(got.entries) + Len(made)
            /\ new.number = got.number + Len(made)
            /\ \A k \in 1 .. Len(got.entries) : new.entries[k] = got.entries[k]
            /\ \A k \in 1 .. Len(made) :
                 /\ made[k] \in Thread
                 /\ new.entries[Len(got.entries) + k] = [id |-> made[k].id, name |-> made[k].doc]
<1> DEFINE got == job[w].got
           made == Made(threads[w])
           es == EntriesFor(made)
           all == got.entries \o es
           new == Extended(got, made)
<1>1. Has(job[w], threads[w])
  BY DEF ListsInv
<1>2. /\ got \in Listing /\ got.entries \in Seq(Entry) /\ Len(got.entries) \in Nat
      /\ got.number \in Nat
  BY <1>1, ListingTypes DEF Has
<1>3. /\ made \in Seq(Thread) /\ Len(made) \in Nat /\ DOMAIN made = 1 .. Len(made)
      /\ \A k \in 1 .. Len(made) : made[k] \in Thread
  BY MadeAre, LenProperties, ElementOfSeq
<1>4. \A k \in 1 .. Len(made) : made[k].doc \in Docs /\ made[k].id \in CaseIds
  <2>1. PICK f \in Bijection(1 .. Len(made), {i \in DOMAIN threads[w] : threads[w][i].at = "made"}) :
          \A k \in 1 .. Len(made) : made[k] = threads[w][f[k]]
    BY MadeAre
  <2>2. \A k \in 1 .. Len(made) : f[k] \in DOMAIN threads[w] /\ threads[w][f[k]].at = "made"
    BY <2>1 DEF Bijection, Injection
  <2>3. \A i \in DOMAIN threads[w] : Placed("append", threads[w][i])
    BY <1>1 DEF Has
  <2> QED BY <2>1, <2>2, <2>3, RoomIsLeft DEF Placed
<1>5. es = [k \in 1 .. Len(made) |-> [id |-> made[k].id, name |-> made[k].doc]]
  BY <1>3 DEF EntriesFor
<1> HIDE DEF made, got
<1>6. es \in [1 .. Len(made) -> Entry]
  BY <1>4, <1>5 DEF Entry
<1>7. es \in Seq(Entry) /\ Len(es) = Len(made)
  BY <1>3, <1>6, SeqDef, LenProperties
<1> HIDE DEF es
<1>8. /\ all \in Seq(Entry) /\ Len(all) = Len(got.entries) + Len(es)
      /\ \A k \in 1 .. Len(got.entries) : all[k] = got.entries[k]
      /\ \A k \in 1 .. Len(es) : all[Len(got.entries) + k] = es[k]
  <2>1. got.entries \in Seq(Entry) /\ es \in Seq(Entry)
    BY <1>2, <1>7
  <2>2. all \in Seq(Entry) /\ Len(all) = Len(got.entries) + Len(es)
    BY <2>1, Joined
  <2>3. \A k \in 1 .. Len(got.entries) : all[k] = got.entries[k]
    BY <2>1, Joined
  <2>4. \A k \in 1 .. Len(es) : all[Len(got.entries) + k] = es[k]
    BY <2>1, Joined
  <2> QED BY <2>2, <2>3, <2>4
<1>9. new = [got EXCEPT !.entries = all, !.number = got.number + Len(made)]
  BY <1>2 DEF Extended, Listing, es
<1> HIDE DEF all, new
<1>10. got.number + Len(made) \in Nat
  BY <1>2, <1>3
<1>11. /\ new \in Listing /\ new.entries = all /\ new.number = got.number + Len(made)
  <2> DEFINE number == got.number + Len(made)
  <2>1. new = [got EXCEPT !.entries = all, !.number = number] /\ number \in Nat
    BY <1>9, <1>10
  <2> HIDE DEF number
  <2>2. /\ [got EXCEPT !.entries = all, !.number = number] \in Listing
        /\ [got EXCEPT !.entries = all, !.number = number].entries = all
        /\ [got EXCEPT !.entries = all, !.number = number].number = number
    <3>1. got \in Listing /\ all \in Seq(Entry) /\ number \in Nat
      BY <1>2, <1>8, <2>1
    <3> QED BY <3>1 DEF Listing
  <2> QED BY <2>1, <2>2 DEF number
<1>12. \A k \in 1 .. Len(made) :
         all[Len(got.entries) + k] = [id |-> made[k].id, name |-> made[k].doc]
  BY <1>5, <1>7, <1>8
<1> QED BY <1>2, <1>3, <1>7, <1>8, <1>11, <1>12 DEF got, made, new

\* The listing is read page by page, and stored.
LEMMA ListingLists ==
  ASSUME ListsInv, NEW w \in Workers, FetchPage(w) \/ FetchFails(w) \/ StoreListing(w)
  PROVE  ListsInv'
<1> DEFINE old == job[w].got
<1>1. /\ Has(job[w], threads[w]) /\ job[w].at \in {"list", "listed"} /\ threads[w] = << >>
      /\ old \in Listing /\ Listed(old) /\ Len(cases) \in Nat /\ DOMAIN cases = 1 .. Len(cases)
  BY Sequences DEF ListsInv, FetchPage, FetchFails, StoreListing, Has
<1>2. /\ old.entries \in Seq(Entry) /\ Len(old.entries) \in Nat
      /\ DOMAIN old.entries = 1 .. Len(old.entries)
  BY <1>1, ListingTypes
<1>3. sheets \in [CaseIds -> {None} \cup Sheet] /\ faults \in 0 .. MaxFaults /\ matched \in BOOLEAN
  BY DEF ListsInv, TypeOK
<1> HIDE DEF old
<1>4. CASE FetchPage(w)
  <2>1. PICK got \in Listing, n \in Nat, last \in Nat :
           /\ n = Len(old.entries) /\ n <= last /\ last <= Len(cases)
           /\ Len(got.entries) = last
           /\ \A k \in 1 .. n : got.entries[k] = old.entries[k]
           /\ \A k \in n + 1 .. last : got.entries[k] = [id |-> k, name |-> cases[k].title]
           /\ \/ GoWith(w, "list", got) /\ last < Len(cases)
              \/ GoWith(w, "listed", got) /\ last = Len(cases)
    BY <1>4, PageRead DEF old
  <2>2. DOMAIN got.entries = 1 .. last
    BY <2>1, ListingTypes
  <2>3. Listed(got)
    <3>1. \A k \in 1 .. n : got.entries[k].id \in DOMAIN cases
      BY <1>1, <1>2, <2>1 DEF Listed
    <3>2. ASSUME NEW k \in n + 1 .. last PROVE got.entries[k].id \in DOMAIN cases
      <4>1. k \in 1 .. Len(cases)
        <5>1. n \in Nat /\ last \in Nat /\ last <= Len(cases) /\ Len(cases) \in Nat
          BY <1>1, <2>1
        <5>2. k \in n + 1 .. last
          OBVIOUS
        <5> QED BY ONLY <5>1, <5>2
      <4>2. got.entries[k].id = k
        <5>1. got.entries[k] = [id |-> k, name |-> cases[k].title]
          BY <2>1
        <5> QED BY <5>1
      <4> QED BY <1>1, <4>1, <4>2
    <3>3. ASSUME NEW k \in DOMAIN got.entries PROVE k \in 1 .. n \/ k \in n + 1 .. last
      BY <2>1, <2>2
    <3> QED BY <3>1, <3>2, <3>3 DEF Listed
  <2>4. ASSUME NEW at \in {"list", "listed"}
        PROVE  Has([at |-> at, id |-> job[w].id, got |-> got], threads[w])
    <3>1. threads[w] = << >> /\ got \in Listing /\ Listed(got) /\ Len(got.entries) <= Len(cases)
      BY <1>1, <2>1, <2>3
    <3>2. \A i : i \notin DOMAIN << >>
      OBVIOUS
    <3> QED BY <3>1, <3>2 DEF Has
  <2>5. got \in GotType /\ UNCHANGED <<rqm, matched, threads, requests, overlap>>
        /\ faults' = faults /\ sheets' = sheets /\ listing' = listing
    BY <1>4 DEF FetchPage, caches, history, GotType
  <2>6. CASE GoWith(w, "list", got)
    BY <1>3, <2>4, <2>5, <2>6, GoLists DEF Stages
  <2>7. CASE GoWith(w, "listed", got)
    BY <1>3, <2>4, <2>5, <2>7, GoLists DEF Stages
  <2> QED BY <2>1, <2>6, <2>7
<1>5. CASE FetchFails(w)
  <2> DEFINE some == IF Len(old.entries) <= PageSize THEN old.entries
                                                     ELSE SubSeq(old.entries, 1, PageSize)
  <2>1. /\ some \in Seq(Entry)
        /\ \A k \in DOMAIN some : k \in DOMAIN old.entries /\ some[k] = old.entries[k]
    <3>1. CASE Len(old.entries) <= PageSize
      BY <1>2, <3>1
    <3>2. CASE ~(Len(old.entries) <= PageSize)
      <4>1. PageSize \in Nat /\ 1 <= PageSize /\ PageSize <= Len(old.entries)
        BY <1>2, <3>2, BoundsAssumption
      <4>2. /\ SubSeq(old.entries, 1, PageSize) \in Seq(Entry)
            /\ Len(SubSeq(old.entries, 1, PageSize)) = PageSize - 1 + 1
            /\ \A k \in 1 .. PageSize - 1 + 1 :
                 SubSeq(old.entries, 1, PageSize)[k] = old.entries[1 + k - 1]
        BY <1>2, <4>1, SubSeqProperties
      <4>3. DOMAIN SubSeq(old.entries, 1, PageSize) = 1 .. PageSize
        BY <4>1, <4>2, LenProperties
      <4> QED BY <1>2, <3>2, <4>1, <4>2, <4>3
    <3> QED BY <3>1, <3>2
  <2> DEFINE got == [old EXCEPT !.success = FALSE, !.entries = some]
  <2>2. GoWith(w, "listed", got)
    BY <1>1, <1>5 DEF FetchFails, Listing, old
  <2> HIDE DEF some
  <2>3. got \in Listing /\ got.entries = some
    BY <1>1, <2>1 DEF Listing
  <2> HIDE DEF got
  <2>4. Has([at |-> "listed", id |-> job[w].id, got |-> got], threads[w])
    BY <1>1, <2>1, <2>3 DEF Has, Listed
  <2>5. got \in GotType /\ UNCHANGED <<rqm, matched, threads, requests, overlap>>
        /\ faults' \in 0 .. MaxFaults /\ sheets' = sheets /\ listing' = listing
    BY <1>5, <2>3, FaultTypes DEF FetchFails, caches, GotType, ListsInv
  <2> QED BY <1>3, <2>2, <2>4, <2>5, GoLists DEF Stages
<1>6. CASE StoreListing(w)
  <2>1. listing' = [old EXCEPT !.number = Len(old.entries)]
    BY <1>6 DEF StoreListing, old
  <2>2. listing' \in Listing /\ listing'.entries = old.entries /\ listing'.number = Len(old.entries)
    <3>1. old \in Listing /\ Len(old.entries) \in Nat
      BY <1>1, <1>2
    <3> QED BY <2>1, <3>1 DEF Listing
  <2>3. End(w) /\ UNCHANGED <<rqm, matched, sheets, history>>
    BY <1>6 DEF StoreListing
  <2>4. Listed(listing)' /\ Counted(listing)'
    BY <1>1, <2>2, <2>3 DEF Listed, Counted, rqm
  <2> QED BY <1>3, <2>2, <2>3, <2>4, SameRqm, EndLists DEF rqm, history
<1> QED BY <1>4, <1>5, <1>6

\* A creation ends, or takes the listing and appends to it.
LEMMA AppendLists ==
  ASSUME ListsInv, NEW w \in Workers, Collect(w) \/ StoreAppended(w)
  PROVE  ListsInv'
<1>1. /\ sheets \in [CaseIds -> {None} \cup Sheet] /\ faults \in 0 .. MaxFaults
      /\ matched \in BOOLEAN /\ listing \in {None} \cup Listing
      /\ listing # None => Listed(listing) /\ Counted(listing)
  BY DEF ListsInv, TypeOK
<1>2. Has(job[w], threads[w])
  BY DEF ListsInv
<1>3. CASE Collect(w)
  <2>1. /\ job[w].at = "create" /\ \A i \in DOMAIN threads[w] : threads[w][i].at \in Ended
        /\ End(w) \/ (GoWith(w, "append", listing) /\ UNCHANGED threads /\ listing # None)
        /\ UNCHANGED <<cases, scripts, matched, listing, sheets, requests, faults, overlap>>
    BY <1>3 DEF Collect, rqm, caches, history
  <2>2. CASE End(w)
    <3>1. listing' # None => Listed(listing)' /\ Counted(listing)'
      BY <1>1, <2>1 DEF Listed, Counted
    <3> QED BY <1>1, <2>1, <2>2, <3>1, SameRqm, EndLists DEF rqm
  <2>3. CASE GoWith(w, "append", listing) /\ UNCHANGED threads /\ listing # None
    <3>1. Has([at |-> "append", id |-> job[w].id, got |-> listing], threads[w])
      BY <1>1, <1>2, <2>1, <2>3 DEF Has, Placed
    <3> QED BY <1>1, <2>1, <2>3, <3>1, GoLists DEF Stages, GotType, rqm
  <2> QED BY <2>1, <2>2, <2>3
<1>4. CASE StoreAppended(w)
  <2> DEFINE got == job[w].got
             made == Made(threads[w])
             new == Extended(got, made)
  <2>1. job[w].at = "append" /\ listing' = new /\ End(w)
        /\ UNCHANGED <<rqm, matched, sheets, history>>
    BY <1>4 DEF StoreAppended
  <2>2. /\ new \in Listing /\ got \in Listing
        /\ Len(made) \in Nat /\ Len(got.entries) \in Nat
        /\ Len(new.entries) = Len(got.entries) + Len(made)
        /\ new.number = got.number + Len(made)
        /\ \A k \in 1 .. Len(got.entries) : new.entries[k] = got.entries[k]
        /\ \A k \in 1 .. Len(made) :
             new.entries[Len(got.entries) + k] = [id |-> made[k].id, name |-> made[k].doc]
    BY <2>1, EntriesAppended
  <2>3. \A k \in 1 .. Len(made) : made[k].id \in DOMAIN cases
    <3>1. PICK f \in Bijection(1 .. Len(made), {i \in DOMAIN threads[w] : threads[w][i].at = "made"}) :
            \A k \in 1 .. Len(made) : made[k] = threads[w][f[k]]
      BY MadeAre
    <3>2. \A k \in 1 .. Len(made) : f[k] \in DOMAIN threads[w] /\ threads[w][f[k]].at = "made"
      BY <3>1 DEF Bijection, Injection
    <3>3. \A i \in DOMAIN threads[w] : Placed("append", threads[w][i])
      BY <1>2, <2>1 DEF Has
    <3> HIDE DEF made
    <3> QED BY <3>1, <3>2, <3>3 DEF Placed
  <2>4. Listed(got) /\ Counted(got)
    BY <1>2, <2>1 DEF Has
  <2> HIDE DEF made, got, new
  <2>5. /\ DOMAIN new.entries = 1 .. Len(new.entries)
        /\ DOMAIN got.entries = 1 .. Len(got.entries)
    BY <2>2, ListingTypes
  <2>6. \A k \in DOMAIN new.entries : new.entries[k].id \in DOMAIN cases
    <3> SUFFICES ASSUME NEW k \in 1 .. Len(got.entries) + Len(made)
                 PROVE  new.entries[k].id \in DOMAIN cases
      BY <2>2, <2>5
    <3>1. CASE k <= Len(got.entries)
      BY <2>2, <2>4, <2>5, <3>1 DEF Listed
    <3>2. CASE ~(k <= Len(got.entries))
      <4>1. k - Len(got.entries) \in 1 .. Len(made) /\ Len(got.entries) + (k - Len(got.entries)) = k
        BY <2>2, <3>2
      <4>2. new.entries[k] = [id |-> made[k - Len(got.entries)].id,
                              name |-> made[k - Len(got.entries)].doc]
        BY <2>2, <4>1
      <4> QED BY <2>3, <4>1, <4>2
    <3> QED BY <3>1, <3>2
  <2>7. Listed(listing)' /\ Counted(listing)'
    BY <2>1, <2>2, <2>4, <2>6 DEF Listed, Counted, rqm
  <2> QED BY <1>1, <2>1, <2>2, <2>7, SameRqm, EndLists DEF rqm, history
<1> QED BY <1>3, <1>4

\* A listing with another title.
Renamed(l, k, doc) == IF k = 0 THEN l ELSE [l EXCEPT !.entries[k].name = doc]

LEMMA RenamedListing ==
  ASSUME NEW got \in Listing, NEW k, NEW doc \in Docs
  PROVE  LET new == Renamed(got, k, doc) IN
         /\ new \in Listing /\ Len(new.entries) = Len(got.entries)
         /\ DOMAIN new.entries = DOMAIN got.entries
         /\ new.number = got.number
         /\ \A m \in DOMAIN got.entries :
              /\ new.entries[m].id = got.entries[m].id
              /\ new.entries[m].name = IF k # 0 /\ m = k THEN doc ELSE got.entries[m].name
<1> DEFINE old == got.entries
           es == [old EXCEPT ![k] = [old[k] EXCEPT !.name = doc]]
           new == Renamed(got, k, doc)
<1>1. /\ old \in Seq(Entry) /\ Len(old) \in Nat /\ DOMAIN old = 1 .. Len(old)
      /\ \A m \in DOMAIN old : old[m] \in Entry
  BY ListingTypes
<1>2. CASE k = 0
  <2>1. 0 \notin DOMAIN old /\ new = got
    BY <1>1, <1>2 DEF Renamed
  <2> QED BY <1>1, <1>2, <2>1
<1>3. CASE k # 0
  <2>1. new = [got EXCEPT !.entries = es]
    BY <1>3 DEF Listing, Renamed
  <2> HIDE DEF old, new
  <2>2. /\ DOMAIN es = DOMAIN old
        /\ \A m \in DOMAIN old :
             es[m] \in Entry /\ es[m].id = old[m].id
             /\ es[m].name = IF m = k THEN doc ELSE old[m].name
    BY <1>1 DEF Entry
  <2> HIDE DEF es
  <2>3. es \in [1 .. Len(old) -> Entry]
    <3>1. es = [m \in DOMAIN old |-> es[m]]
      BY <2>2 DEF es
    <3> QED BY <1>1, <2>2, <3>1
  <2>4. es \in Seq(Entry) /\ Len(es) = Len(old)
    BY <1>1, <2>3, SeqDef, LenProperties
  <2>5. new \in Listing /\ new.entries = es /\ new.number = got.number
    BY <2>1, <2>4 DEF Listing
  <2> QED BY <1>3, <2>2, <2>4, <2>5 DEF old, new
<1> QED BY <1>2, <1>3

\* A sheet is stored; the listing is read again, and gets the new title.
LEMMA SheetsLists ==
  ASSUME ListsInv, NEW w \in Workers,
         StoreSheet(w) \/ StoreUpdate(w) \/ ReadListing(w) \/ StoreRenamed(w)
  PROVE  ListsInv'
<1>1. /\ sheets \in [CaseIds -> {None} \cup Sheet] /\ faults \in 0 .. MaxFaults
      /\ matched \in BOOLEAN /\ listing \in {None} \cup Listing
      /\ listing # None => Listed(listing) /\ Counted(listing)
  BY DEF ListsInv, TypeOK
<1>2. Has(job[w], threads[w]) /\ job[w].got \in GotType
  BY JobTypes DEF ListsInv
<1>3. CASE StoreSheet(w)
  <2>1. /\ End(w) /\ UNCHANGED <<rqm, matched, listing, history>>
        /\ sheets' = [sheets EXCEPT ![job[w].id] = job[w].got]
        /\ job[w].got \in Sheet
    BY <1>2, <1>3 DEF StoreSheet, Has
  <2>2. sheets' \in [CaseIds -> {None} \cup Sheet]
    BY <1>1, <2>1
  <2>3. listing' # None => Listed(listing)' /\ Counted(listing)'
    BY <1>1, <2>1 DEF Listed, Counted, rqm
  <2> QED BY <1>1, <2>1, <2>2, <2>3, SameRqm, EndLists DEF rqm, history
<1>4. CASE StoreUpdate(w)
  <2> DEFINE doc == threads[w][1].doc
  <2>1. /\ job[w].at = "restore" /\ Goto(w, "reread")
        /\ sheets' = [sheets EXCEPT ![job[w].id] = [title |-> doc, steps |-> doc]]
        /\ UNCHANGED <<cases, scripts, matched, listing, threads, requests, faults, overlap>>
    BY <1>4 DEF StoreUpdate, rqm, history
  <2>2. DOMAIN threads[w] = {1} /\ doc \in Docs
    BY <1>2, <2>1 DEF Has, Placed
  <2> HIDE DEF doc
  <2>3. sheets' \in [CaseIds -> {None} \cup Sheet]
    BY <1>1, <2>1, <2>2 DEF Sheet
  <2>4. Has([at |-> "reread", id |-> job[w].id, got |-> job[w].got], threads[w])
    BY <1>2, <2>1 DEF Has, Placed
  <2> QED BY <1>1, <1>2, <2>1, <2>3, <2>4, GoLists DEF Stages, rqm
<1>5. CASE ReadListing(w)
  <2>1. /\ job[w].at = "reread"
        /\ UNCHANGED <<cases, scripts, matched, listing, sheets, requests, faults, overlap>>
        /\ End(w) \/ (GoWith(w, "rename", listing) /\ UNCHANGED threads /\ listing # None)
    BY <1>5 DEF ReadListing, rqm, caches, history
  <2>2. CASE End(w)
    <3>1. listing' # None => Listed(listing)' /\ Counted(listing)'
      BY <1>1, <2>1 DEF Listed, Counted
    <3> QED BY <1>1, <2>1, <2>2, <3>1, SameRqm, EndLists DEF rqm
  <2>3. CASE GoWith(w, "rename", listing) /\ UNCHANGED threads /\ listing # None
    <3>1. Has([at |-> "rename", id |-> job[w].id, got |-> listing], threads[w])
      BY <1>1, <1>2, <2>1, <2>3 DEF Has, Placed
    <3> QED BY <1>1, <2>1, <2>3, <3>1, GoLists DEF Stages, GotType, rqm
  <2> QED BY <2>1, <2>2, <2>3
<1>6. CASE StoreRenamed(w)
  <2> DEFINE got == job[w].got
             k == SelectInSeq(got.entries, LAMBDA e : e.id = job[w].id)
             doc == threads[w][1].doc
  <2>1. /\ job[w].at = "rename" /\ End(w) /\ UNCHANGED <<rqm, matched, sheets, history>>
        /\ listing' = Renamed(got, k, doc)
    BY <1>6 DEF StoreRenamed, Renamed
  <2>2. got \in Listing /\ Listed(got) /\ Counted(got) /\ DOMAIN threads[w] = {1} /\ doc \in Docs
    BY <1>2, <2>1 DEF Has, Placed
  <2> HIDE DEF k, got, doc
  <2>3. /\ listing' \in Listing /\ Len(listing'.entries) = Len(got.entries)
        /\ DOMAIN listing'.entries = DOMAIN got.entries
        /\ listing'.number = got.number
        /\ \A m \in DOMAIN got.entries : listing'.entries[m].id = got.entries[m].id
    BY <2>1, <2>2, RenamedListing
  <2>4. Listed(listing)' /\ Counted(listing)'
    BY <2>1, <2>2, <2>3 DEF Listed, Counted, rqm
  <2> QED BY <1>1, <2>1, <2>3, <2>4, SameRqm, EndLists DEF rqm, history
<1> QED BY <1>3, <1>4, <1>5, <1>6

----
(* Reading and writing a test case. *)

\* The one thread of a request that reads or changes a test case, for the lists.
LEMMA OneThreadLists ==
  ASSUME ListsInv, ScriptInv, NEW w \in Workers,
         At(w, 1) \in {"get_case", "get_script", "put_case", "put_script"}
  PROVE  /\ 1 \in DOMAIN threads[w] /\ DOMAIN threads[w] = {1}
         /\ threads[w][1] \in Thread /\ threads[w][1].at = At(w, 1)
         /\ job[w].at \in {"retrieve", "update"} /\ job[w].id \in DOMAIN cases
         /\ Placed(job[w].at, threads[w][1]) /\ cases[job[w].id] \in CaseType
         /\ cases[job[w].id].script \in DOMAIN scripts
<1>1. /\ 1 \in DOMAIN threads[w]
      /\ threads[w][1] \in Thread /\ threads[w][1].at = At(w, 1)
      /\ job[w].at \in {"retrieve", "update"} /\ job[w].id \in DOMAIN cases
  BY OneThread
<1>2. Has(job[w], threads[w])
  BY DEF ListsInv
<1>3. DOMAIN threads[w] = {1} /\ Placed(job[w].at, threads[w][1])
  BY <1>1, <1>2 DEF Has
<1>4. cases[job[w].id] \in CaseType /\ cases[job[w].id].script \in DOMAIN scripts
  BY <1>1, Sequences DEF ListsInv, ScriptInv, OwnScript
<1> QED BY <1>1, <1>3, <1>4

LEMMA GetCaseLists ==
  ASSUME ListsInv, ScriptInv, NEW w \in Workers, GetCase(w)
  PROVE  ListsInv'
<1> DEFINE t == threads[w][1]
           case == cases[job[w].id]
<1>1. /\ 1 \in DOMAIN threads[w] /\ t \in Thread
      /\ job[w].at \in {"retrieve", "update"} /\ job[w].id \in DOMAIN cases
      /\ Placed(job[w].at, t) /\ case \in CaseType /\ case.script \in DOMAIN scripts
  BY OneThreadLists DEF GetCase
<1>2. /\ threads' = [threads EXCEPT ![w][1] =
           IF job[w].at = "retrieve"
             THEN [t EXCEPT !.script = case.script, !.doc = case.title, !.at = "get_script"]
             ELSE [t EXCEPT !.script = case.script, !.at = "put_case"]]
      /\ job' = job
      /\ UNCHANGED <<cases, scripts, matched, listing, sheets, requests, faults, overlap>>
  BY DEF GetCase, rqm, caches, history
<1> HIDE DEF t, case
<1>3. PICK x \in Thread :
        /\ threads' = [threads EXCEPT ![w][1] = x]
        /\ job[w].at = "retrieve" => x.at = "get_script" /\ x.doc = case.title /\ x.script = case.script
        /\ job[w].at = "update" => x.at = "put_case" /\ x.doc = t.doc
  <2> DEFINE read == [t EXCEPT !.script = case.script, !.doc = case.title, !.at = "get_script"]
             kept == [t EXCEPT !.script = case.script, !.at = "put_case"]
  <2>1. case.script \in Nat /\ case.title \in Docs
    BY <1>1 DEF CaseType
  <2>2. read \in Thread /\ read.at = "get_script" /\ read.doc = case.title /\ read.script = case.script
    BY <1>1, <2>1 DEF Thread
  <2>3. kept \in Thread /\ kept.at = "put_case" /\ kept.doc = t.doc
    BY <1>1, <2>1 DEF Thread
  <2>4. threads' = [threads EXCEPT ![w][1] = IF job[w].at = "retrieve" THEN read ELSE kept]
    BY <1>2
  <2> HIDE DEF read, kept
  <2>5. CASE job[w].at = "retrieve"
    BY <2>2, <2>4, <2>5
  <2>6. CASE job[w].at = "update"
    BY <2>3, <2>4, <2>6
  <2> QED BY <1>1, <2>5, <2>6
<1>4. threads' = [threads EXCEPT ![w][1] = x]
  BY <1>3
<1>5. Placed(job[w].at, x)'
  BY <1>1, <1>2, <1>3 DEF Placed, CaseType
<1>6. Room'
  <2>1. /\ DOMAIN threads'[w] = DOMAIN threads[w]
        /\ \A v \in Workers : v # w => threads'[v] = threads[v]
    BY <1>1, <1>4, ThreadMoves DEF ScriptInv
  <2> QED BY <1>1, <1>2, <2>1, RoomStays DEF Creates
<1>7. matched \in BOOLEAN /\ faults \in 0 .. MaxFaults
  BY DEF ListsInv, TypeOK
<1> QED BY <1>1, <1>2, <1>4, <1>5, <1>6, <1>7, SameRqm, ThreadLists DEF rqm, caches

\* The thread is done, and the request goes on.
LEMMA DoneLists ==
  ASSUME ListsInv, ScriptInv, NEW w \in Workers, At(w, 1) \in {"get_script", "put_script"},
         Step(w, 1, "made"), RqmTyped, Grows, Len(cases') = Len(cases),
         NEW at \in {"sheet", "restore"}, NEW got \in GotType,
         at = "sheet" => got \in Sheet, at = "restore" => job[w].at = "update",
         GoWith(w, at, got) \/ (Goto(w, at) /\ got = job[w].got),
         faults' \in 0 .. MaxFaults, UNCHANGED <<matched, caches, requests, overlap>>
  PROVE  ListsInv'
<1>1. /\ 1 \in DOMAIN threads[w] /\ DOMAIN threads[w] = {1}
      /\ job[w].id \in DOMAIN cases /\ Placed(job[w].at, threads[w][1])
  BY OneThreadLists
<1>2. PICK t \in Thread :
        /\ t.at = "made" /\ t.doc = threads[w][1].doc
        /\ threads' = [threads EXCEPT ![w][1] = t]
        /\ DOMAIN threads'[w] = DOMAIN threads[w] /\ threads'[w][1] = t
        /\ \A v \in Workers : v # w => threads'[v] = threads[v]
  BY <1>1, StepLists
<1>3. threads' \in [Workers -> Seq(Thread)]
  BY <1>1, <1>2, ThreadMoves DEF ScriptInv
<1>4. /\ job' \in [Workers -> Job]
      /\ job'[w].at = at /\ job'[w].id = job[w].id /\ job'[w].got = got
      /\ \A v \in Workers : v # w => job'[v] = job[v]
  BY GoTypes DEF ListsInv, Stages
<1>5. Placed(at, t)'
  BY <1>1, <1>2 DEF Placed
<1>6. Has(job[w], threads[w])'
  BY <1>1, <1>2, <1>4, <1>5 DEF Has, Grows
<1>7. Room'
  BY <1>2, <1>4, RoomStays DEF Creates
<1>8. /\ sheets \in [CaseIds -> {None} \cup Sheet] /\ requests \in 0 .. MaxRequests
      /\ matched \in BOOLEAN /\ overlap \in BOOLEAN /\ listing \in {None} \cup Listing
      /\ listing # None => Listed(listing) /\ Counted(listing)
  BY DEF ListsInv, TypeOK
<1>9. listing' # None => Listed(listing)' /\ Counted(listing)'
  BY <1>8 DEF Listed, Counted, caches, Grows
<1> QED BY <1>2, <1>3, <1>4, <1>6, <1>7, <1>8, <1>9, ListsMove DEF caches

LEMMA GetScriptLists ==
  ASSUME ListsInv, ScriptInv, NEW w \in Workers, GetScript(w)
  PROVE  ListsInv'
<1> DEFINE t == threads[w][1]
           got == [title |-> t.doc, steps |-> scripts[t.script].steps]
<1>1. /\ 1 \in DOMAIN threads[w] /\ t.at = "get_script"
      /\ job[w].at \in {"retrieve", "update"} /\ Placed(job[w].at, t)
  BY OneThreadLists DEF GetScript
<1>2. t.doc \in Docs /\ t.script \in DOMAIN scripts
  BY <1>1 DEF Placed
<1>3. got \in Sheet
  <2>1. scripts[t.script].steps \in Docs
    BY <1>2, Sequences DEF ListsInv, ScriptType
  <2> HIDE DEF t
  <2> QED BY <1>2, <2>1 DEF Sheet
<1>4. /\ GoWith(w, "sheet", got) /\ Step(w, 1, "made") /\ At(w, 1) = "get_script"
      /\ UNCHANGED <<cases, scripts, matched, caches, requests, overlap, faults>>
  BY DEF GetScript, rqm, history
<1> HIDE DEF got
<1>5. faults \in 0 .. MaxFaults
  BY DEF ListsInv, TypeOK
<1> QED BY <1>3, <1>4, <1>5, SameRqm, DoneLists DEF GotType, rqm

\* What a PUT overwrites keeps its type, and RQM loses nothing.
LEMMA PutRqm ==
  ASSUME ListsInv, ScriptInv, NEW w \in Workers, PutCase(w) \/ PutScript(w) \/ PutLost(w)
  PROVE  /\ RqmTyped /\ Grows /\ DOMAIN cases' = DOMAIN cases /\ Len(cases') = Len(cases)
         /\ DOMAIN scripts' = DOMAIN scripts
<1>1. /\ 1 \in DOMAIN threads[w] /\ job[w].id \in DOMAIN cases
      /\ threads[w][1].at \in {"put_case", "put_script"}
      /\ job[w].at \in {"retrieve", "update"}
      /\ Placed(job[w].at, threads[w][1]) /\ cases[job[w].id] \in CaseType
  BY OneThreadLists DEF PutCase, PutScript, PutLost
<1>2. threads[w][1].doc \in Docs
  BY <1>1 DEF Placed
<1>3. cases \in Seq(CaseType) /\ scripts \in Seq(ScriptType)
  BY DEF ListsInv, TypeOK, CaseType, ScriptType
<1> DEFINE y == [cases[job[w].id] EXCEPT !.title = threads[w][1].doc]
           z == TestscriptTemplate(threads[w][1].doc)
           k == threads[w][1].script
<1>4. y \in CaseType /\ z \in ScriptType
  BY <1>1, <1>2 DEF CaseType, ScriptType, TestscriptTemplate
<1>5. /\ cases' = cases \/ cases' = [cases EXCEPT ![job[w].id] = y]
      /\ scripts' = scripts \/ scripts' = [scripts EXCEPT ![k] = z]
  BY DEF PutCase, PutScript, PutLost
<1> HIDE DEF y, z, k
<1>6. cases' \in Seq(CaseType) /\ DOMAIN cases' = DOMAIN cases
  BY <1>3, <1>4, <1>5, Overwritten
<1>7. scripts' \in Seq(ScriptType) /\ DOMAIN scripts' = DOMAIN scripts
  BY <1>3, <1>4, <1>5, Overwritten
<1>8. Len(cases') = Len(cases)
  <2>1. /\ Len(cases) \in Nat /\ Len(cases') \in Nat /\ DOMAIN cases = 1 .. Len(cases)
        /\ DOMAIN cases' = 1 .. Len(cases')
    BY <1>3, <1>6, LenProperties
  <2>2. 1 .. Len(cases) = 1 .. Len(cases')
    BY <1>6, <2>1
  <2>3. ASSUME NEW m \in Nat, NEW n \in Nat, 1 .. m = 1 .. n, m < n PROVE FALSE
    <3>1. n \in 1 .. n /\ n \notin 1 .. m
      BY <2>3
    <3> QED BY <2>3, <3>1
  <2>4. ~(Len(cases) < Len(cases')) /\ ~(Len(cases') < Len(cases))
    BY <2>1, <2>2, <2>3
  <2>5. \A m, n \in Nat : m < n \/ n < m \/ m = n
    OBVIOUS
  <2> QED BY <2>1, <2>4, <2>5
<1> QED BY <1>6, <1>7, <1>8 DEF RqmTyped, Grows

LEMMA PutsLists ==
  ASSUME ListsInv, ScriptInv, NEW w \in Workers, PutCase(w) \/ PutScript(w) \/ PutLost(w)
  PROVE  ListsInv'
<1>1. /\ RqmTyped /\ Grows /\ DOMAIN cases' = DOMAIN cases /\ Len(cases') = Len(cases)
  BY PutRqm
<1>2. /\ 1 \in DOMAIN threads[w] /\ threads[w][1].at = At(w, 1)
      /\ job[w].at \in {"retrieve", "update"} /\ Placed(job[w].at, threads[w][1])
  BY OneThreadLists DEF PutCase, PutScript, PutLost
<1>3. /\ faults' \in 0 .. MaxFaults /\ matched \in BOOLEAN
      /\ listing \in {None} \cup Listing /\ sheets \in [CaseIds -> {None} \cup Sheet]
      /\ listing # None => Listed(listing) /\ Counted(listing)
      /\ UNCHANGED <<matched, caches, requests, overlap>>
  BY FaultTypes DEF PutCase, PutScript, PutLost, ListsInv, TypeOK
<1>4. job[w].at = "update"
  <2>1. threads[w][1].at \in {"put_case", "put_script"}
    BY <1>2 DEF PutCase, PutScript, PutLost
  <2> QED BY <1>2, <2>1 DEF Placed
<1>5. CASE PutCase(w)
  <2>1. Step(w, 1, "put_script") /\ job' = job
    BY <1>5 DEF PutCase
  <2>2. PICK t \in Thread :
          /\ t.at = "put_script" /\ t.doc = threads[w][1].doc
          /\ threads' = [threads EXCEPT ![w][1] = t]
          /\ \A v \in Workers : v # w => threads'[v] = threads[v]
    BY <1>2, <2>1, StepLists
  <2>3. Placed(job[w].at, t)'
    BY <1>2, <1>4, <2>1, <2>2 DEF Placed
  <2>4. Room'
    BY <1>1, <1>3, <1>4, <2>1, <2>2, RoomStays DEF Creates
  <2> QED BY <1>1, <1>2, <1>3, <2>1, <2>2, <2>3, <2>4, ThreadLists
<1>6. CASE PutScript(w)
  <2>1. Step(w, 1, "made") /\ Goto(w, "restore") /\ At(w, 1) = "put_script"
    BY <1>6 DEF PutScript
  <2>2. job[w].got \in GotType
    BY JobTypes DEF ListsInv
  <2> QED BY <1>1, <1>3, <1>4, <2>1, <2>2, DoneLists
<1>7. CASE PutLost(w)
  <2>1. End(w)
    BY <1>7 DEF PutLost
  <2>2. listing' # None => Listed(listing)' /\ Counted(listing)'
    BY <1>1, <1>3 DEF Listed, Counted, caches
  <2> QED BY <1>1, <1>3, <2>1, <2>2, EndLists DEF caches
<1> QED BY <1>5, <1>6, <1>7

----
(* The types, and what the listing names, at last. *)

LEMMA ListsInit == Init => ListsInv
<1> SUFFICES ASSUME Init PROVE ListsInv
  OBVIOUS
<1>1. PICK doc \in Docs :
        /\ cases = <<TestcaseTemplate(doc, 1)>> /\ scripts = <<TestscriptTemplate(doc)>>
        /\ listing \in {None, [entries |-> <<[id |-> 1, name |-> doc]>>, number |-> 1,
                               success |-> TRUE]}
  BY DEF Init
<1>2. /\ job = [w \in Workers |-> Idle] /\ threads = [w \in Workers |-> << >>]
      /\ matched = FALSE /\ overlap = FALSE /\ requests = 0 /\ faults = 0
      /\ sheets = [id \in CaseIds |-> None]
  BY DEF Init
<1>3. TestcaseTemplate(doc, 1) \in CaseType /\ TestscriptTemplate(doc) \in ScriptType
  BY DEF TestcaseTemplate, TestscriptTemplate, CaseType, ScriptType
<1>4. /\ cases \in Seq(CaseType) /\ scripts \in Seq(ScriptType)
      /\ Len(cases) = 1 /\ DOMAIN cases = {1}
  BY <1>1, <1>3
<1>5. MaxRequests \in Nat /\ MaxItems \in Nat /\ MaxFaults \in Nat /\ 1 \in CaseIds
  <2>1. MaxRequests \in Nat /\ MaxItems \in Nat /\ MaxFaults \in Nat
    BY BoundsAssumption
  <2>2. MaxRequests * MaxItems \in Nat
    BY <2>1
  <2> QED BY <2>1, <2>2 DEF CaseIds
<1>6. /\ listing \in {None} \cup Listing
      /\ listing # None => Listed(listing) /\ Counted(listing)
  <2> DEFINE e == [id |-> 1, name |-> doc]
             l == [entries |-> <<e>>, number |-> 1, success |-> TRUE]
  <2>1. e \in Entry /\ e.id = 1
    BY <1>5 DEF Entry
  <2> HIDE DEF e
  <2>2. <<e>> \in Seq(Entry) /\ Len(<<e>>) = 1 /\ DOMAIN <<e>> = {1} /\ <<e>>[1] = e
    BY <2>1
  <2>3. l \in Listing /\ l.entries = <<e>> /\ l.number = 1
    BY <2>2 DEF Listing
  <2>4. Listed(l) /\ Counted(l)
    BY <1>4, <2>1, <2>2, <2>3 DEF Listed, Counted
  <2>5. listing \in {None, l}
    BY <1>1 DEF e
  <2> HIDE DEF l
  <2> QED BY <2>3, <2>4, <2>5
<1>7. \A w \in Workers : Has(job[w], threads[w])
  BY <1>2, IdleType DEF Has
<1>8. TypeOK
  <2>1. \A w \in Workers : Idle \in Job /\ << >> \in Seq(Thread)
    BY IdleType, EmptySeq
  <2>2. job \in [Workers -> Job] /\ threads \in [Workers -> Seq(Thread)]
    BY <1>2, <2>1
  <2>3. sheets \in [CaseIds -> {None} \cup Sheet]
    BY <1>2
  <2>4. /\ matched \in BOOLEAN /\ overlap \in BOOLEAN
        /\ requests \in 0 .. MaxRequests /\ faults \in 0 .. MaxFaults
    <3>1. 0 \in 0 .. MaxRequests /\ 0 \in 0 .. MaxFaults
      BY <1>5
    <3> QED BY <1>2, <3>1
  <2>5. /\ cases \in Seq([title: Docs, script: Nat \ {0}])
        /\ scripts \in Seq([steps: Docs])
    BY <1>4 DEF CaseType, ScriptType
  <2> QED BY <1>6, <2>2, <2>3, <2>4, <2>5 DEF TypeOK
<1>9. Room
  <2>1. Creating = {}
    BY <1>2, IdleType DEF Creating, Creates
  <2>2. IsFiniteSet(Creating) /\ Cardinality(Creating) = 0
    BY <2>1, FS_EmptySet
  <2> HIDE DEF Creating
  <2> QED BY <1>2, <1>4, <1>5, <2>2 DEF Room
<1> QED BY <1>6, <1>7, <1>8, <1>9 DEF ListsInv

LEMMA ExpireLists ==
  ASSUME ListsInv, Expire \/ UNCHANGED vars
  PROVE  ListsInv'
<1>1. /\ UNCHANGED <<cases, scripts, matched, job, threads, requests, faults, overlap>>
      /\ listing' \in {listing, None}
      /\ \/ sheets' = sheets
         \/ \E id \in CaseIds : sheets' = [sheets EXCEPT ![id] = None]
  BY DEF Expire, vars, rqm, caches, history
<1>2. TypeOK'
  <2>1. listing' \in {None} \cup Listing /\ sheets' \in [CaseIds -> {None} \cup Sheet]
    BY <1>1 DEF ListsInv, TypeOK
  <2> QED BY <1>1, <2>1 DEF ListsInv, TypeOK
<1>3. Room'
  <2>1. Creating' = Creating
    BY <1>1 DEF Creating, Creates
  <2> QED BY <1>1, <2>1 DEF ListsInv, Room
<1>4. \A w \in Workers : Has(job[w], threads[w])'
  BY <1>1 DEF ListsInv, Has, Listed, Counted, Placed
<1>5. listing' # None => Listed(listing)' /\ Counted(listing)'
  BY <1>1 DEF ListsInv, Listed, Counted
<1> QED BY <1>2, <1>3, <1>4, <1>5 DEF ListsInv

LEMMA ListsNext == ListsInv /\ ScriptInv /\ [Next]_vars => ListsInv'
<1> SUFFICES ASSUME ListsInv, ScriptInv, [Next]_vars PROVE ListsInv'
  OBVIOUS
<1>1. CASE Expire \/ UNCHANGED vars
  BY <1>1, ExpireLists
<1>2. ASSUME NEW w \in Workers, RequestStep(w) PROVE ListsInv'
  BY <1>2, BeginsLists, ListingLists, AppendLists, SheetsLists, GetCaseLists, GetScriptLists,
     PutsLists DEF RequestStep
<1>3. ASSUME NEW w \in Workers, NEW i \in 1 .. MaxItems, ThreadStep(w, i) PROVE ListsInv'
  BY <1>3, CallsLists, PostScriptLists, PostCaseLists, PostLostLists DEF ThreadStep
<1> QED BY <1>1, <1>2, <1>3 DEF Next

\* The variables keep their types.
THEOREM TestcaseTypes == Spec => []TypeOK
<1>1. ListsInv => TypeOK
  BY DEF ListsInv
<1> QED BY <1>1, ScriptInit, ScriptNext, ListsInit, ListsNext, PTL DEF Spec

\* The cached listing names test cases that exist on RQM, and counts them right.
THEOREM EveryListedExists == Spec => []ListedExist
<1>1. ListsInv => ListedExist
  BY DEF ListsInv, ListedExist, Listed, Counted
<1> QED BY <1>1, ScriptInit, ScriptNext, ListsInit, ListsNext, PTL DEF Spec

----
(* The caches when no call has failed and no two requests overlapped. *)

Quiet == faults = 0 /\ ~overlap

TrueSheet(id) == [title |-> cases[id].title, steps |-> scripts[cases[id].script].steps]

\* The sheets are true, but perhaps that of x.
SheetsBut(x) ==
  \A id \in DOMAIN cases : id # x /\ sheets[id] # None => sheets[id] = TrueSheet(id)

\* The listing l names the test cases ids, each once and each rightly, but
\* perhaps x.
Exact(l, ids, x) ==
  /\ \A k \in DOMAIN l.entries : l.entries[k].id \in ids
  /\ \A k \in DOMAIN l.entries :
       l.entries[k].id # x => l.entries[k].name = cases[l.entries[k].id].title
  /\ \A k, m \in DOMAIN l.entries : l.entries[k].id = l.entries[m].id => k = m
  /\ \A id \in ids : \E k \in DOMAIN l.entries : l.entries[k].id = id
ListingBut(ids, x) == listing # None => Exact(listing, ids, x)

AllTrue == SheetsBut(0) /\ ListingBut(DOMAIN cases, 0)

\* The test cases a bulk creation has made.
MadeBy(ts) == {i \in DOMAIN ts : ts[i].at = "made"}
MadeIds(ts) == {ts[i].id : i \in MadeBy(ts)}
MadeRightly(ts) ==
  /\ \A i \in MadeBy(ts) : cases[ts[i].id].title = ts[i].doc
  /\ \A i, k \in MadeBy(ts) : ts[i].id = ts[k].id => i = k

\* The pages read so far.
ReadSoFar(l) ==
  \A k \in DOMAIN l.entries : l.entries[k] = [id |-> k, name |-> cases[k].title]

\* What is true at each stage of a request.
StageOfList(j) ==
  /\ j.at \in {"list", "listed"} => SheetsBut(0) /\ listing = None /\ ReadSoFar(j.got)
  /\ j.at = "listed" => Len(j.got.entries) = Len(cases)
StageOfCreate(j, ts) ==
  /\ j.at \in {"create", "append"} => SheetsBut(0) /\ MadeRightly(ts)
  /\ j.at = "create" => ListingBut(DOMAIN cases \ MadeIds(ts), 0)
  /\ j.at = "append" => Exact(j.got, DOMAIN cases \ MadeIds(ts), 0)
StageOfRetrieve(j, ts) ==
  /\ j.at \in {"retrieve", "sheet"} => AllTrue
  /\ j.at = "retrieve" /\ ts[1].at = "get_script" =>
       ts[1].doc = cases[j.id].title /\ ts[1].script = cases[j.id].script
  /\ j.at = "sheet" => j.got = TrueSheet(j.id)
StageOfUpdate(j, ts) ==
  /\ j.at = "update" /\ ts[1].at # "put_script" => AllTrue
  /\ j.at = "update" /\ ts[1].at \in {"put_case", "put_script"} =>
       ts[1].script = cases[j.id].script
  /\ (j.at = "update" /\ ts[1].at = "put_script") \/ j.at = "restore" =>
       SheetsBut(j.id) /\ ListingBut(DOMAIN cases, j.id) /\ cases[j.id].title = ts[1].doc
  /\ j.at = "restore" => scripts[cases[j.id].script].steps = ts[1].doc
  /\ j.at \in {"reread", "rename"} => SheetsBut(0) /\ cases[j.id].title = ts[1].doc
  /\ j.at = "reread" => ListingBut(DOMAIN cases, j.id)
  /\ j.at = "rename" => Exact(j.got, DOMAIN cases, j.id)
Stage(j, ts) ==
  StageOfList(j) /\ StageOfCreate(j, ts) /\ StageOfRetrieve(j, ts) /\ StageOfUpdate(j, ts)

Alone == \A v, w \in Workers : job[v].at # "idle" /\ job[w].at # "idle" => v = w
NotRaised(ts) == \A i \in DOMAIN ts : ts[i].at # "raised"
SheetsExist == \A id \in CaseIds \ DOMAIN cases : sheets[id] = None

CachesInv ==
  /\ SheetsExist
  /\ Quiet =>
       /\ Alone /\ \A w \in Workers : NotRaised(threads[w])
       /\ AllIdle => AllTrue
       /\ \A w \in Workers : Stage(job[w], threads[w])

----
(* Steps, by what they do to the caches. *)

\* One worker moves on.
LEMMA CachesMove ==
  ASSUME CachesInv, NEW w \in Workers,
         \A v \in Workers : v # w => threads'[v] = threads[v] /\ job'[v] = job[v],
         SheetsExist',
         Quiet' =>
           /\ Quiet /\ (job[w].at # "idle" \/ AllIdle)
           /\ NotRaised(threads'[w])
           /\ job'[w].at = "idle" => AllTrue'
           /\ Stage(job[w], threads[w])'
  PROVE  CachesInv'
<1> SUFFICES ASSUME Quiet'
             PROVE  /\ Alone' /\ (\A v \in Workers : NotRaised(threads[v]))'
                    /\ AllIdle' => AllTrue'
                    /\ (\A v \in Workers : Stage(job[v], threads[v]))'
  BY DEF CachesInv
<1>1. \A v \in Workers : v # w => job[v].at = "idle" /\ job'[v].at = "idle"
  BY DEF CachesInv, Alone, AllIdle
<1>2. Alone'
  BY <1>1 DEF Alone
<1>3. ASSUME NEW v \in Workers PROVE NotRaised(threads[v])'
  BY DEF CachesInv, NotRaised
<1>4. AllIdle' => AllTrue'
  BY DEF AllIdle
<1>5. ASSUME NEW v \in Workers, v # w PROVE Stage(job[v], threads[v])'
  <2>1. job'[v].at = "idle"
    BY <1>1, <1>5
  <2> QED BY <2>1 DEF Stage, StageOfList, StageOfCreate, StageOfRetrieve, StageOfUpdate
<1> QED BY <1>2, <1>3, <1>4, <1>5

\* RQM and the caches stay.
LEMMA SameViews ==
  ASSUME cases' = cases, scripts' = scripts
  PROVE  /\ \A l, ids, x : Exact(l, ids, x) => Exact(l, ids, x)'
         /\ \A ts : MadeRightly(ts) => MadeRightly(ts)'
         /\ \A l : ReadSoFar(l) => ReadSoFar(l)'
         /\ \A id : TrueSheet(id)' = TrueSheet(id)
         /\ UNCHANGED sheets => \A x : SheetsBut(x) => SheetsBut(x)'
         /\ UNCHANGED listing => \A ids, x : ListingBut(ids, x) => ListingBut(ids, x)'
<1>1. \A l, ids, x : Exact(l, ids, x) => Exact(l, ids, x)'
  BY DEF Exact
<1>2. \A ts : MadeRightly(ts) => MadeRightly(ts)'
  BY DEF MadeRightly, MadeBy
<1>3. \A l : ReadSoFar(l) => ReadSoFar(l)'
  BY DEF ReadSoFar
<1>4. \A id : TrueSheet(id)' = TrueSheet(id)
  BY DEF TrueSheet
<1>5. UNCHANGED sheets => \A x : SheetsBut(x) => SheetsBut(x)'
  BY <1>4 DEF SheetsBut
<1>6. UNCHANGED listing => \A ids, x : ListingBut(ids, x) => ListingBut(ids, x)'
  BY <1>1 DEF ListingBut
<1> QED BY <1>1, <1>2, <1>3, <1>4, <1>5, <1>6

LEMMA SameCaches ==
  ASSUME UNCHANGED <<rqm, caches>>
  PROVE  /\ cases' = cases /\ scripts' = scripts /\ sheets' = sheets /\ listing' = listing
         /\ \A x : SheetsBut(x) => SheetsBut(x)'
         /\ \A ids, x : ListingBut(ids, x) => ListingBut(ids, x)'
         /\ AllTrue => AllTrue'
         /\ SheetsExist => SheetsExist'
<1>1. cases' = cases /\ scripts' = scripts /\ sheets' = sheets /\ listing' = listing
  BY DEF rqm, caches
<1>2. /\ \A x : SheetsBut(x) => SheetsBut(x)'
      /\ \A ids, x : ListingBut(ids, x) => ListingBut(ids, x)'
  BY <1>1, SameViews
<1>3. SheetsExist => SheetsExist'
  BY <1>1 DEF SheetsExist
<1> QED BY <1>1, <1>2, <1>3 DEF AllTrue

\* A thread that has made nothing makes nothing.
LEMMA SameMade ==
  ASSUME NEW ts, NEW us, NEW i, DOMAIN us = DOMAIN ts,
         \A k \in DOMAIN ts : k # i => us[k] = ts[k],
         i \in DOMAIN ts => ts[i].at # "made" /\ us[i].at # "made"
  PROVE  /\ MadeIds(us) = MadeIds(ts)
         /\ MadeRightly(ts) => MadeRightly(us)
<1>1. MadeBy(us) = MadeBy(ts) /\ \A k \in MadeBy(ts) : us[k] = ts[k]
  BY DEF MadeBy
<1> QED BY <1>1 DEF MadeIds, MadeRightly

\* What is true of a request stays true while RQM and the caches stay.
LEMMA SameStage ==
  ASSUME UNCHANGED <<rqm, caches>>, NEW j, NEW ts, Stage(j, ts)
  PROVE  Stage(j, ts)'
<1>1. /\ cases' = cases /\ scripts' = scripts /\ sheets' = sheets /\ listing' = listing
      /\ \A x : SheetsBut(x) => SheetsBut(x)'
      /\ \A ids, x : ListingBut(ids, x) => ListingBut(ids, x)'
      /\ AllTrue => AllTrue'
  BY SameCaches
<1>2. /\ \A l, ids, x : Exact(l, ids, x) => Exact(l, ids, x)'
      /\ \A us : MadeRightly(us) => MadeRightly(us)'
      /\ \A l : ReadSoFar(l) => ReadSoFar(l)'
      /\ \A id : TrueSheet(id)' = TrueSheet(id)
  BY <1>1, SameViews
<1>3. StageOfList(j)'
  BY <1>1, <1>2 DEF Stage, StageOfList
<1>4. StageOfCreate(j, ts)'
  BY <1>1, <1>2 DEF Stage, StageOfCreate
<1>5. StageOfRetrieve(j, ts)'
  BY <1>1, <1>2 DEF Stage, StageOfRetrieve
<1>6. StageOfUpdate(j, ts)'
  BY <1>1, <1>2 DEF Stage, StageOfUpdate
<1> QED BY <1>3, <1>4, <1>5, <1>6 DEF Stage

\* A request goes on, and leaves RQM and the caches alone.
LEMMA GoCaches ==
  ASSUME CachesInv, NEW w \in Workers, UNCHANGED <<rqm, caches>>,
         \A v \in Workers : v # w => threads'[v] = threads[v] /\ job'[v] = job[v],
         Quiet' => Quiet /\ job[w].at # "idle",
         Quiet /\ NotRaised(threads[w]) /\ Stage(job[w], threads[w]) =>
           /\ NotRaised(threads'[w])
           /\ job'[w].at = "idle" => AllTrue
           /\ Stage(job'[w], threads'[w])
  PROVE  CachesInv'
<1>1. SheetsExist'
  BY SameCaches DEF CachesInv
<1>2. ASSUME Quiet'
      PROVE  /\ NotRaised(threads'[w])
             /\ job'[w].at = "idle" => AllTrue'
             /\ Stage(job[w], threads[w])'
  <2>1. NotRaised(threads[w]) /\ Stage(job[w], threads[w])
    BY <1>2 DEF CachesInv
  <2>2. Stage(job'[w], threads'[w])
    BY <1>2, <2>1
  <2>3. PICK j, ts : j = job'[w] /\ ts = threads'[w]
    OBVIOUS
  <2>4. Stage(j, ts)'
    BY <2>2, <2>3, SameStage
  <2>5. Stage(job[w], threads[w])'
    BY <2>3, <2>4
  <2> QED BY <1>2, <2>1, <2>5, SameCaches
<1> QED BY <1>1, <1>2, CachesMove

\* A request begins.
LEMMA BeginCaches ==
  ASSUME CachesInv, ListsInv, NEW w \in Workers, NEW j, NEW ts, Begin(w, j, ts),
         j.at # "idle", NotRaised(ts), AllTrue => Stage(j, ts)
  PROVE  CachesInv'
<1>1. /\ job \in [Workers -> Job] /\ threads \in [Workers -> Seq(Thread)]
  BY DEF ListsInv, TypeOK
<1>2. /\ job' = [job EXCEPT ![w] = j] /\ threads' = [threads EXCEPT ![w] = ts]
      /\ UNCHANGED <<rqm, caches>> /\ faults' = faults
      /\ overlap' = (overlap \/ \E v \in Workers : job[v].at # "idle")
  BY DEF Begin
<1>3. /\ job'[w] = j /\ threads'[w] = ts
      /\ \A v \in Workers : v # w => job'[v] = job[v] /\ threads'[v] = threads[v]
  BY <1>1, <1>2
<1>4. Quiet' => Quiet /\ AllIdle
  BY <1>2 DEF Quiet, AllIdle
<1>5. Quiet' => Stage(job[w], threads[w])'
  <2>1. Quiet' => Stage(j, ts)
    BY <1>4 DEF CachesInv
  <2>2. Quiet' => Stage(j, ts)'
    BY <1>2, <2>1, SameStage
  <2> QED BY <1>3, <2>2
<1>6. SheetsExist'
  BY <1>2, SameCaches DEF CachesInv
<1> QED BY <1>3, <1>4, <1>5, <1>6, CachesMove

\* A call fails.
LEMMA FaultCaches ==
  ASSUME ListsInv, NEW kind, Fault(kind), SheetsExist'
  PROVE  CachesInv'
BY FaultTypes DEF ListsInv, Quiet, CachesInv

----
(* The actions, for the caches. *)

\* The stages of a request of which a thread is at a call.
LEMMA InCall ==
  ASSUME ListsInv, NEW w \in Workers, NEW i \in DOMAIN threads[w],
         threads[w][i].at \notin Ended
  PROVE  /\ job[w].at \in {"create", "retrieve", "update"}
         /\ Placed(job[w].at, threads[w][i])
         /\ job[w].at # "create" => i = 1 /\ DOMAIN threads[w] = {1}
<1>1. /\ Placed(job[w].at, threads[w][i]) /\ job[w].at \in Stages
      /\ job[w].at \notin {"idle", "list", "listed"} /\ Has(job[w], threads[w])
  BY PlacedThread, JobTypes DEF ListsInv
<1>2. job[w].at \in {"create", "retrieve", "update"}
  BY <1>1 DEF Placed, Stages, Ended
<1> QED BY <1>1, <1>2 DEF Has

\* Logins and refusals.
LEMMA CallsCaches ==
  ASSUME CachesInv, ListsInv, ScriptInv, NEW w \in Workers, NEW i,
         Login(w, i) \/ LoginRefused(w, i) \/ SetHeader(w, i) \/ Raise(w, i) \/ PostRefused(w, i)
  PROVE  CachesInv'
<1>1. /\ i \in DOMAIN threads[w] /\ At(w, i) = threads[w][i].at
      /\ threads[w][i].at \notin Ended
  BY AtIsThread DEF Login, LoginRefused, SetHeader, Raise, PostRefused, Posting, Ended
<1>2. UNCHANGED <<rqm, caches>> /\ overlap' = overlap
  BY DEF Login, LoginRefused, SetHeader, Raise, PostRefused, history
<1>3. CASE \E kind : Fault(kind)
  BY <1>2, <1>3, SameCaches, FaultCaches DEF CachesInv
<1>4. CASE ~ \E kind : Fault(kind)
  <2>1. PICK at \in {"header", "post_script", "get_case", "failed"} :
          /\ Step(w, i, at) /\ job' = job /\ faults' = faults
          /\ at = "get_case" => job[w].at # "create"
          /\ at = "post_script" => job[w].at = "create"
          /\ at \in {"header", "get_case", "post_script"} => threads[w][i].at \in {"login", "header"}
          /\ at = "failed" => threads[w][i].at \in {"post_script", "post_case"}
    BY <1>1, <1>4 DEF Login, LoginRefused, SetHeader, Raise, PostRefused, FirstCall, history, Posting
  <2>2. PICK t \in Thread :
          /\ t.at = at
          /\ DOMAIN threads'[w] = DOMAIN threads[w] /\ threads'[w][i] = t
          /\ \A k \in DOMAIN threads[w] : k # i => threads'[w][k] = threads[w][k]
          /\ \A v \in Workers : v # w => threads'[v] = threads[v]
    BY <1>1, <2>1, StepLists
  <2>3. /\ job[w].at \in {"create", "retrieve", "update"} /\ Placed(job[w].at, threads[w][i])
        /\ job[w].at # "create" => i = 1 /\ DOMAIN threads[w] = {1}
    BY <1>1, InCall
  <2>4. NotRaised(threads[w]) => NotRaised(threads'[w])
    BY <1>1, <2>2 DEF NotRaised
  <2>5. /\ MadeIds(threads'[w]) = MadeIds(threads[w])
        /\ MadeRightly(threads[w]) => MadeRightly(threads'[w])
    BY <1>1, <2>1, <2>2, SameMade DEF Ended
  <2>6. ASSUME Stage(job[w], threads[w]) PROVE Stage(job[w], threads'[w])
    <3>1. CASE job[w].at = "create"
      BY <2>5, <2>6, <3>1
         DEF Stage, StageOfList, StageOfCreate, StageOfRetrieve, StageOfUpdate
    <3>2. CASE job[w].at \in {"retrieve", "update"}
      <4>1. /\ threads[w][1].at \in {"login", "header"} /\ threads'[w][1].at \in {"header", "get_case"}
        BY <2>1, <2>2, <2>3, <3>2 DEF Placed
      <4> QED BY <2>6, <3>2, <4>1
                 DEF Stage, StageOfList, StageOfCreate, StageOfRetrieve, StageOfUpdate
    <3> QED BY <2>3, <3>1, <3>2
  <2>7. Quiet' => Quiet
    BY <1>2, <2>1 DEF Quiet
  <2> QED BY <1>2, <2>1, <2>2, <2>3, <2>4, <2>6, <2>7, GoCaches
<1> QED BY <1>3, <1>4

\* A request for one test case begins.
LEMMA BeginOnCase ==
  ASSUME CachesInv, ListsInv, NEW w \in Workers, NEW id, NEW doc,
         \/ Begin(w, [Idle EXCEPT !.at = "retrieve", !.id = id], <<NewThread(doc)>>)
         \/ Begin(w, [Idle EXCEPT !.at = "update", !.id = id], <<NewThread(doc)>>)
  PROVE  CachesInv'
<1> DEFINE read == [Idle EXCEPT !.at = "retrieve", !.id = id]
           write == [Idle EXCEPT !.at = "update", !.id = id]
           ts == <<NewThread(doc)>>
<1>1. Begin(w, read, ts) \/ Begin(w, write, ts)
  OBVIOUS
<1>2. read.at = "retrieve" /\ write.at = "update" /\ DOMAIN ts = {1} /\ ts[1].at = "login"
  BY DEF Idle, NewThread
<1> HIDE DEF ts, read, write
<1>3. NotRaised(ts)
  BY <1>2 DEF NotRaised
<1>4. AllTrue => Stage(read, ts)
  BY <1>2 DEF Stage, StageOfList, StageOfCreate, StageOfRetrieve, StageOfUpdate
<1>5. AllTrue => Stage(write, ts)
  BY <1>2 DEF Stage, StageOfList, StageOfCreate, StageOfRetrieve, StageOfUpdate
<1> QED BY <1>1, <1>2, <1>3, <1>4, <1>5, BeginCaches

\* What begins.
LEMMA BeginsCaches ==
  ASSUME CachesInv, ListsInv, NEW w \in Workers, List(w) \/ Create(w) \/ Retrieve(w) \/ Update(w)
  PROVE  CachesInv'
<1>1. CASE List(w)
  <2> DEFINE got == [entries |-> << >>, number |-> 0, success |-> TRUE]
             j == [Idle EXCEPT !.at = "list", !.got = got]
  <2>1. Begin(w, j, << >>) /\ listing = None
    BY <1>1 DEF List
  <2>2. j.at = "list" /\ j.got.entries = << >>
    BY DEF Idle
  <2> HIDE DEF j
  <2>3. NotRaised(<< >>) /\ ReadSoFar(j.got)
    BY <2>2 DEF NotRaised, ReadSoFar
  <2>4. AllTrue => Stage(j, << >>)
    BY <2>1, <2>2, <2>3
       DEF AllTrue, Stage, StageOfList, StageOfCreate, StageOfRetrieve, StageOfUpdate
  <2> QED BY <2>1, <2>2, <2>3, <2>4, BeginCaches
<1>2. CASE Create(w)
  <2>1. PICK docs \in DocLists :
          Begin(w, [Idle EXCEPT !.at = "create"], [i \in DOMAIN docs |-> NewThread(docs[i])])
    BY <1>2 DEF Create
  <2> DEFINE j == [Idle EXCEPT !.at = "create"]
             ts == [i \in DOMAIN docs |-> NewThread(docs[i])]
  <2>2. j.at = "create" /\ \A i \in DOMAIN ts : ts[i].at = "login"
    BY DEF Idle, NewThread
  <2> HIDE DEF ts, j
  <2>3. NotRaised(ts) /\ MadeBy(ts) = {}
    BY <2>2 DEF NotRaised, MadeBy
  <2>4. DOMAIN cases \ MadeIds(ts) = DOMAIN cases /\ MadeRightly(ts)
    BY <2>3 DEF MadeIds, MadeRightly
  <2>5. AllTrue => Stage(j, ts)
    BY <2>2, <2>4 DEF AllTrue, Stage, StageOfList, StageOfCreate, StageOfRetrieve, StageOfUpdate
  <2> QED BY <2>1, <2>2, <2>3, <2>5, BeginCaches DEF ts, j
<1>3. CASE Retrieve(w)
  <2>1. PICK id \in DOMAIN cases :
          Begin(w, [Idle EXCEPT !.at = "retrieve", !.id = id], <<NewThread(None)>>)
    BY <1>3 DEF Retrieve
  <2> QED BY <2>1, BeginOnCase
<1>4. CASE Update(w)
  <2>1. PICK id \in DOMAIN cases, doc \in Docs :
          Begin(w, [Idle EXCEPT !.at = "update", !.id = id], <<NewThread(doc)>>)
    BY <1>4 DEF Update
  <2> QED BY <2>1, BeginOnCase
<1> QED BY <1>1, <1>2, <1>3, <1>4

\* The listing is read page by page, and stored.
LEMMA ListingCaches ==
  ASSUME CachesInv, ListsInv, NEW w \in Workers,
         FetchPage(w) \/ FetchFails(w) \/ StoreListing(w)
  PROVE  CachesInv'
<1> DEFINE old == job[w].got
<1>1. /\ job[w].at \in {"list", "listed"} /\ threads[w] = << >>
      /\ old \in Listing /\ job[w].got \in GotType
      /\ Len(old.entries) \in Nat /\ DOMAIN old.entries = 1 .. Len(old.entries)
      /\ Len(cases) \in Nat /\ DOMAIN cases = 1 .. Len(cases)
  <2>1. Has(job[w], threads[w]) /\ job[w].at \in {"list", "listed"}
    BY DEF ListsInv, FetchPage, FetchFails, StoreListing
  <2>2. old \in Listing /\ threads[w] = << >>
    BY <2>1 DEF Has
  <2> QED BY <2>1, <2>2, ListingTypes, Sequences, JobTypes DEF ListsInv
<1> HIDE DEF old
<1>2. CASE FetchPage(w)
  <2>1. PICK got \in Listing, n \in Nat, last \in Nat :
           /\ n = Len(old.entries) /\ n <= last /\ last <= Len(cases)
           /\ Len(got.entries) = last
           /\ \A k \in 1 .. n : got.entries[k] = old.entries[k]
           /\ \A k \in n + 1 .. last : got.entries[k] = [id |-> k, name |-> cases[k].title]
           /\ \/ GoWith(w, "list", got) /\ last < Len(cases)
              \/ GoWith(w, "listed", got) /\ last = Len(cases)
    BY <1>2, PageRead DEF old
  <2>2. DOMAIN got.entries = 1 .. last
    BY <2>1, ListingTypes
  <2>3. ReadSoFar(old) => ReadSoFar(got)
    <3>1. ASSUME ReadSoFar(old), NEW k \in 1 .. n
          PROVE  got.entries[k] = [id |-> k, name |-> cases[k].title]
      BY <1>1, <2>1, <3>1 DEF ReadSoFar
    <3>2. \A k \in 1 .. last : k \in 1 .. n \/ k \in n + 1 .. last
      BY <2>1
    <3> QED BY <2>1, <2>2, <3>1, <3>2 DEF ReadSoFar
  <2>4. got \in GotType /\ UNCHANGED <<rqm, caches>> /\ threads' = threads
        /\ faults' = faults /\ overlap' = overlap /\ job[w].at = "list"
    BY <1>2 DEF FetchPage, history, GotType
  <2>5. PICK at \in {"list", "listed"} :
          GoWith(w, at, got) /\ (at = "listed" => last = Len(cases))
    BY <2>1
  <2>6. /\ job'[w].at = at /\ job'[w].got = got
        /\ \A v \in Workers : v # w => job'[v] = job[v]
    BY <2>4, <2>5, GoTypes DEF ListsInv, Stages
  <2>7. ASSUME Stage(job[w], threads[w]) PROVE Stage(job'[w], threads'[w])
    <3>1. SheetsBut(0) /\ listing = None /\ ReadSoFar(old)
      BY <2>4, <2>7 DEF Stage, StageOfList, old
    <3> QED BY <2>1, <2>3, <2>5, <2>6, <3>1
            DEF Stage, StageOfList, StageOfCreate, StageOfRetrieve, StageOfUpdate
  <2>8. Quiet' => Quiet
    BY <2>4 DEF Quiet
  <2> QED BY <2>4, <2>5, <2>6, <2>7, <2>8, GoCaches
<1>3. CASE FetchFails(w)
  <2>1. Fault("page") /\ UNCHANGED <<rqm, caches>>
    BY <1>3 DEF FetchFails
  <2> QED BY <2>1, SameCaches, FaultCaches DEF CachesInv
<1>4. CASE StoreListing(w)
  <2>1. /\ job[w].at = "listed" /\ End(w) /\ listing' = [old EXCEPT !.number = Len(old.entries)]
        /\ cases' = cases /\ scripts' = scripts /\ sheets' = sheets
        /\ faults' = faults /\ overlap' = overlap
    BY <1>4 DEF StoreListing, rqm, history, old
  <2>2. listing'.entries = old.entries
    BY <1>1, <2>1 DEF Listing
  <2>3. /\ job'[w] = Idle /\ threads'[w] = << >>
        /\ \A v \in Workers : v # w => job'[v] = job[v] /\ threads'[v] = threads[v]
    BY <2>1, EndTypes DEF ListsInv
  <2>4. SheetsExist'
    BY <2>1 DEF CachesInv, SheetsExist
  <2>5. Quiet' => Quiet /\ Stage(job[w], threads[w])
    BY <2>1 DEF CachesInv, Quiet
  <2>6. ASSUME Stage(job[w], threads[w]) PROVE AllTrue'
    <3>1. SheetsBut(0) /\ ReadSoFar(old) /\ Len(old.entries) = Len(cases)
      BY <2>1, <2>6 DEF Stage, StageOfList, old
    <3>2. SheetsBut(0)'
      BY <2>1, <3>1, SameViews
    <3>3. Exact(old, DOMAIN cases, 0)
      <4>1. ASSUME NEW k \in DOMAIN old.entries
            PROVE  /\ old.entries[k].id = k /\ old.entries[k].name = cases[k].title
                   /\ k \in DOMAIN cases
        <5>1. old.entries[k] = [id |-> k, name |-> cases[k].title]
          BY <3>1 DEF ReadSoFar
        <5>2. k \in DOMAIN cases
          BY <1>1, <3>1
        <5> QED BY <5>1, <5>2
      <4> QED BY <1>1, <3>1, <4>1 DEF Exact
    <3>4. Exact(listing, DOMAIN cases, 0)'
      BY <2>1, <2>2, <3>3 DEF Exact
    <3> QED BY <3>2, <3>4 DEF AllTrue, ListingBut
  <2>7. Stage(job[w], threads[w])' /\ NotRaised(threads'[w])
    BY <2>3, IdleType
       DEF Stage, StageOfList, StageOfCreate, StageOfRetrieve, StageOfUpdate, NotRaised
  <2> QED BY <2>1, <2>3, <2>4, <2>5, <2>6, <2>7, CachesMove
<1> QED BY <1>2, <1>3, <1>4

\* The script of a test case that is being made.
LEMMA PostScriptCaches ==
  ASSUME CachesInv, ListsInv, ScriptInv, NEW w \in Workers, NEW i, PostScript(w, i)
  PROVE  CachesInv'
<1>1. /\ i \in DOMAIN threads[w] /\ At(w, i) = threads[w][i].at
      /\ job[w].at = "create" /\ threads[w][i] \in Thread /\ threads[w][i].doc \in Docs
      /\ threads[w][i].at = "post_script"
  BY PostingCreates DEF PostScript, Posting
<1> DEFINE y == TestscriptTemplate(threads[w][i].doc)
<1>2. /\ scripts' = Append(scripts, y) /\ job' = job
      /\ cases' = cases /\ sheets' = sheets /\ listing' = listing
      /\ faults' = faults /\ overlap' = overlap
  BY DEF PostScript, caches, history
<1>3. PICK t \in Thread :
        /\ t.at = "post_case" /\ threads' = [threads EXCEPT ![w][i] = t]
  <2>1. NewId(scripts) \in Nat
    BY Sequences DEF ListsInv, NewId
  <2>2. /\ [threads[w][i] EXCEPT !.at = "post_case", !.script = NewId(scripts)] \in Thread
        /\ [threads[w][i] EXCEPT !.at = "post_case", !.script = NewId(scripts)].at = "post_case"
    BY <1>1, <2>1 DEF Thread
  <2> QED BY <2>2 DEF PostScript
<1>4. /\ DOMAIN threads'[w] = DOMAIN threads[w] /\ threads'[w][i] = t
      /\ \A k \in DOMAIN threads[w] : k # i => threads'[w][k] = threads[w][k]
      /\ \A v \in Workers : v # w => threads'[v] = threads[v]
  BY <1>1, <1>3, ThreadMoves DEF ScriptInv
<1>5. \A id \in DOMAIN cases : TrueSheet(id)' = TrueSheet(id)
  <2>1. scripts \in Seq(ScriptType) /\ y \in ScriptType
    BY <1>1 DEF ListsInv, TypeOK, ScriptType, TestscriptTemplate
  <2> HIDE DEF y
  <2>2. \A k \in DOMAIN scripts : scripts'[k] = scripts[k]
    BY <1>2, <2>1, Appended
  <2> QED BY <1>2, <2>2 DEF TrueSheet, ScriptInv, OwnScript
<1>6. SheetsBut(0) => SheetsBut(0)'
  BY <1>2, <1>5 DEF SheetsBut
<1>7. SheetsExist'
  BY <1>2 DEF CachesInv, SheetsExist
<1>8. /\ MadeIds(threads'[w]) = MadeIds(threads[w])
      /\ MadeRightly(threads[w]) => MadeRightly(threads'[w])
  BY <1>1, <1>3, <1>4, SameMade
<1>9. ASSUME Quiet'
      PROVE  Quiet /\ NotRaised(threads'[w]) /\ Stage(job[w], threads[w])'
  <2>1. Quiet
    BY <1>2, <1>9 DEF Quiet
  <2>2. NotRaised(threads[w]) /\ Stage(job[w], threads[w])
    BY <2>1 DEF CachesInv
  <2>3. NotRaised(threads'[w])
    BY <1>3, <1>4, <2>2 DEF NotRaised
  <2>4. /\ SheetsBut(0)' /\ MadeRightly(threads'[w])
        /\ ListingBut(DOMAIN cases \ MadeIds(threads'[w]), 0)
    BY <1>1, <1>6, <1>8, <2>2 DEF Stage, StageOfCreate
  <2>5. MadeRightly(threads[w])' /\ ListingBut(DOMAIN cases \ MadeIds(threads[w]), 0)'
    BY <1>2, <2>4 DEF MadeRightly, MadeBy, MadeIds, ListingBut, Exact
  <2>6. Stage(job[w], threads[w])'
    BY <1>1, <1>2, <2>4, <2>5
       DEF Stage, StageOfList, StageOfCreate, StageOfRetrieve, StageOfUpdate
  <2> QED BY <2>1, <2>3, <2>6
<1> QED BY <1>1, <1>2, <1>4, <1>7, <1>9, CachesMove

\* One thread more has made its test case.
LEMMA OneMoreMade ==
  ASSUME NEW ts, NEW us, NEW i \in DOMAIN ts, DOMAIN us = DOMAIN ts,
         \A k \in DOMAIN ts : k # i => us[k] = ts[k],
         ts[i].at # "made", us[i].at = "made"
  PROVE  /\ MadeBy(us) = MadeBy(ts) \cup {i}
         /\ MadeIds(us) = MadeIds(ts) \cup {us[i].id}
         /\ \A k \in MadeBy(ts) : k # i /\ us[k] = ts[k]
<1>1. MadeBy(us) = MadeBy(ts) \cup {i} /\ \A k \in MadeBy(ts) : k # i /\ us[k] = ts[k]
  BY DEF MadeBy
<1>2. ASSUME NEW x PROVE x \in MadeIds(us) <=> x \in MadeIds(ts) \/ x = us[i].id
  BY <1>1 DEF MadeIds
<1> QED BY <1>1, <1>2

LEMMA MadeRightlyStays ==
  ASSUME NEW ts, NEW us, NEW i \in DOMAIN ts, DOMAIN us = DOMAIN ts,
         \A k \in DOMAIN ts : k # i => us[k] = ts[k],
         ts[i].at # "made", us[i].at = "made",
         NEW n \in Nat, us[i].id = n + 1, \A k \in MadeBy(ts) : ts[k].id \in 1 .. n,
         \A c \in 1 .. n : cases'[c] = cases[c], cases'[n + 1].title = us[i].doc,
         MadeRightly(ts)
  PROVE  MadeRightly(us)'
<1>1. MadeBy(us) = MadeBy(ts) \cup {i} /\ \A k \in MadeBy(ts) : k # i /\ us[k] = ts[k]
  BY OneMoreMade
<1>2. ASSUME NEW k \in MadeBy(us) PROVE cases'[us[k].id].title = us[k].doc
  <2>1. CASE k = i
    BY <2>1
  <2>2. CASE k # i
    <3>1. k \in MadeBy(ts) /\ us[k] = ts[k] /\ ts[k].id \in 1 .. n
      BY <1>1, <2>2
    <3>2. cases[ts[k].id].title = ts[k].doc
      BY <3>1 DEF MadeRightly
    <3> QED BY <3>1, <3>2
  <2> QED BY <2>1, <2>2
<1>3. ASSUME NEW k \in MadeBy(us), NEW m \in MadeBy(us), us[k].id = us[m].id PROVE k = m
  <2>1. n + 1 \notin 1 .. n
    OBVIOUS
  <2> QED BY <1>1, <1>3, <2>1 DEF MadeRightly
<1>4. MadeBy(us)' = MadeBy(us)
  BY DEF MadeBy
<1> QED BY <1>2, <1>3, <1>4 DEF MadeRightly

\* A listing stays exact while its test cases keep their titles.
LEMMA ExactStays ==
  ASSUME NEW l, NEW ids, NEW x, Exact(l, ids, x),
         \A c \in ids : c # x => cases'[c].title = cases[c].title
  PROVE  Exact(l, ids, x)'
BY DEF Exact

\* The test case is there, and its thread knows.
LEMMA PostCaseCaches ==
  ASSUME CachesInv, ListsInv, ScriptInv, NEW w \in Workers, NEW i \in 1 .. MaxItems,
         PostCase(w, i), ListsInv'
  PROVE  CachesInv'
<1>1. /\ i \in DOMAIN threads[w] /\ At(w, i) = threads[w][i].at
      /\ job[w].at = "create" /\ threads[w][i] \in Thread /\ threads[w][i].doc \in Docs
      /\ threads[w][i].at = "post_case"
  BY PostingCreates DEF PostCase, Posting
<1> DEFINE n == Len(cases)
           y == TestcaseTemplate(threads[w][i].doc, threads[w][i].script)
<1>2. /\ cases' = Append(cases, y) /\ job' = job
      /\ scripts' = scripts /\ sheets' = sheets /\ listing' = listing
      /\ faults' = faults /\ overlap' = overlap
  BY DEF PostCase, caches, history
<1>3. PICK t \in Thread :
        /\ t.at = "made" /\ t.id = n + 1 /\ t.doc = threads[w][i].doc
        /\ threads' = [threads EXCEPT ![w][i] = t]
  <2>1. NewId(cases) \in Nat /\ NewId(cases) = n + 1
    BY Sequences DEF ListsInv, NewId
  <2> DEFINE x == [threads[w][i] EXCEPT !.at = "made", !.id = NewId(cases)]
  <2>2. x \in Thread /\ x.at = "made" /\ x.id = n + 1 /\ x.doc = threads[w][i].doc
    BY <1>1, <2>1 DEF Thread
  <2>3. threads' = [threads EXCEPT ![w][i] = x]
    BY DEF PostCase
  <2> HIDE DEF x
  <2> QED BY <2>2, <2>3
<1>4. /\ DOMAIN threads'[w] = DOMAIN threads[w] /\ threads'[w][i] = t
      /\ \A k \in DOMAIN threads[w] : k # i => threads'[w][k] = threads[w][k]
      /\ \A v \in Workers : v # w => threads'[v] = threads[v]
  BY <1>1, <1>3, ThreadMoves DEF ScriptInv
<1>5. /\ n \in Nat /\ DOMAIN cases = 1 .. n /\ DOMAIN cases' = 1 .. n + 1
      /\ \A c \in 1 .. n : cases'[c] = cases[c]
      /\ cases'[n + 1] = y /\ y.title = threads[w][i].doc
  <2>1. cases \in Seq(CaseType) /\ y \in CaseType
    <3>1. threads[w][i].script \in DOMAIN scripts
      BY <1>1, BoundsAssumption DEF ScriptInv, PendingIsFree, Pending
    <3>2. DOMAIN scripts = 1 .. Len(scripts) /\ Len(scripts) \in Nat
      BY Sequences DEF ListsInv
    <3> QED BY <1>1, <3>1, <3>2 DEF ListsInv, TypeOK, CaseType, TestcaseTemplate
  <2>2. y.title = threads[w][i].doc
    BY DEF TestcaseTemplate
  <2> HIDE DEF y
  <2> QED BY <1>2, <2>1, <2>2, Appended
<1> HIDE DEF n, y
<1>6. n + 1 \in CaseIds \ DOMAIN cases
  <2>1. (ListsInv => DOMAIN cases \subseteq CaseIds)'
    BY CasesHaveIds, PTL
  <2>2. n + 1 \in 1 .. n + 1 /\ n + 1 \notin 1 .. n
    BY <1>5
  <2> QED BY <1>5, <2>1, <2>2
<1>7. SheetsExist' /\ sheets[n + 1] = None
  BY <1>2, <1>5, <1>6 DEF CachesInv, SheetsExist
<1>8. SheetsBut(0) => SheetsBut(0)'
  <2> SUFFICES ASSUME SheetsBut(0), NEW id \in 1 .. n + 1, sheets[id] # None
               PROVE  sheets[id] = TrueSheet(id)'
    BY <1>2, <1>5 DEF SheetsBut
  <2>1. id \in 1 .. n
    BY <1>5, <1>7
  <2>2. id # 0 /\ TrueSheet(id)' = TrueSheet(id)
    BY <1>2, <1>5, <2>1 DEF TrueSheet
  <2> QED BY <1>5, <2>1, <2>2 DEF SheetsBut
<1>9. \A k \in MadeBy(threads[w]) : threads[w][k].id \in 1 .. n
  <2>1. \A k \in MadeBy(threads[w]) : k \in DOMAIN threads[w] /\ threads[w][k].at = "made"
    BY DEF MadeBy
  <2>2. \A k \in DOMAIN threads[w] : Placed(job[w].at, threads[w][k])
    BY DEF ListsInv, Has
  <2> QED BY <1>1, <1>5, <2>1, <2>2 DEF Placed
<1>10. DOMAIN cases' \ MadeIds(threads'[w]) = DOMAIN cases \ MadeIds(threads[w])
  <2>1. MadeIds(threads'[w]) = MadeIds(threads[w]) \cup {n + 1}
    BY <1>1, <1>3, <1>4, OneMoreMade
  <2>2. DOMAIN cases' = DOMAIN cases \cup {n + 1} /\ n + 1 \notin DOMAIN cases
    BY <1>5
  <2> QED BY <2>1, <2>2
<1>11. MadeRightly(threads[w]) => MadeRightly(threads[w])'
  <2>1. PICK ts, us : ts = threads[w] /\ us = threads'[w]
    OBVIOUS
  <2>2. MadeRightly(ts) => MadeRightly(us)'
    BY <1>1, <1>3, <1>4, <1>5, <1>9, <2>1, MadeRightlyStays
  <2> QED BY <2>1, <2>2
<1>12. ListingBut(DOMAIN cases \ MadeIds(threads[w]), 0) =>
         ListingBut(DOMAIN cases \ MadeIds(threads[w]), 0)'
  <2>1. PICK l, ids : l = listing /\ ids = DOMAIN cases \ MadeIds(threads[w])
    OBVIOUS
  <2>2. l = listing' /\ ids = DOMAIN cases' \ MadeIds(threads'[w])
    BY <1>2, <1>10, <2>1
  <2>3. \A c \in ids : c # 0 => cases'[c].title = cases[c].title
    BY <1>5, <2>1
  <2>4. Exact(l, ids, 0) => Exact(l, ids, 0)'
    BY <2>3, ExactStays
  <2> QED BY <2>1, <2>2, <2>4 DEF ListingBut
<1>13. ASSUME Quiet'
       PROVE  Quiet /\ NotRaised(threads'[w]) /\ Stage(job[w], threads[w])'
  <2>1. Quiet
    BY <1>2, <1>13 DEF Quiet
  <2>2. NotRaised(threads[w]) /\ Stage(job[w], threads[w])
    BY <2>1 DEF CachesInv
  <2>3. NotRaised(threads'[w])
    BY <1>3, <1>4, <2>2 DEF NotRaised
  <2>4. /\ SheetsBut(0)' /\ MadeRightly(threads[w])'
        /\ ListingBut(DOMAIN cases \ MadeIds(threads[w]), 0)'
    BY <1>1, <1>8, <1>11, <1>12, <2>2 DEF Stage, StageOfCreate
  <2>5. Stage(job[w], threads[w])'
    BY <1>1, <1>2, <2>4
       DEF Stage, StageOfList, StageOfCreate, StageOfRetrieve, StageOfUpdate
  <2> QED BY <2>1, <2>3, <2>5
<1> QED BY <1>1, <1>2, <1>4, <1>7, <1>13, CachesMove

\* A call fails that leaves the caches alone.
LEMMA FaultKeeps ==
  ASSUME CachesInv, ListsInv, NEW kind, Fault(kind), Grows, UNCHANGED caches
  PROVE  CachesInv'
<1>1. SheetsExist'
  BY DEF CachesInv, SheetsExist, Grows, caches
<1> QED BY <1>1, FaultCaches

LEMMA PostLostCaches ==
  ASSUME CachesInv, ListsInv, ScriptInv, NEW w \in Workers, NEW i \in 1 .. MaxItems,
         PostLost(w, i)
  PROVE  CachesInv'
<1> DEFINE y == TestcaseTemplate(threads[w][i].doc, threads[w][i].script)
           z == TestscriptTemplate(threads[w][i].doc)
<1>1. /\ i \in DOMAIN threads[w] /\ At(w, i) = threads[w][i].at
      /\ job[w].at = "create" /\ threads[w][i].doc \in Docs /\ Posting(w, i)
  BY PostingCreates DEF PostLost
<1>2. /\ Fault("lost") /\ UNCHANGED caches
      /\ \/ threads[w][i].at = "post_script" /\ scripts' = Append(scripts, z) /\ cases' = cases
         \/ threads[w][i].at = "post_case" /\ cases' = Append(cases, y) /\ scripts' = scripts
  BY <1>1 DEF PostLost, Posting
<1>3. Grows
  <2>1. z \in ScriptType
    BY <1>1 DEF TestscriptTemplate, ScriptType
  <2>2. ASSUME threads[w][i].at = "post_case" PROVE y \in CaseType
    <3>1. threads[w][i].script \in DOMAIN scripts
      BY <1>1, <2>2 DEF ScriptInv, PendingIsFree, Pending
    <3>2. DOMAIN scripts = 1 .. Len(scripts) /\ Len(scripts) \in Nat
      BY Sequences DEF ListsInv
    <3> QED BY <1>1, <3>1, <3>2 DEF CaseType, TestcaseTemplate
  <2> HIDE DEF y, z
  <2> QED BY <1>2, <2>1, <2>2, OneMoreCase, OneMoreScript
<1> QED BY <1>2, <1>3, FaultKeeps

\* The threads are joined.
LEMMA CollectCaches ==
  ASSUME CachesInv, ListsInv, NEW w \in Workers, Collect(w)
  PROVE  CachesInv'
<1>1. /\ job[w].at = "create" /\ UNCHANGED <<rqm, caches>>
      /\ faults' = faults /\ overlap' = overlap
      /\ listing \in GotType
  BY DEF Collect, history, ListsInv, TypeOK, GotType
<1>2. Quiet' => Quiet
  BY <1>1 DEF Quiet
<1>3. CASE End(w)
  <2>1. /\ job'[w] = Idle /\ threads'[w] = << >>
        /\ \A v \in Workers : v # w => job'[v] = job[v] /\ threads'[v] = threads[v]
    BY <1>3, EndTypes DEF ListsInv
  <2>2. ASSUME Stage(job[w], threads[w]), NotRaised(threads[w])
        PROVE  AllTrue
    <3>1. listing = None
      <4>1. job'[w].at = "idle"
        BY <2>1, IdleType
      <4>2. ASSUME GoWith(w, "append", listing) PROVE FALSE
        BY <1>1, <4>1, <4>2, GoTypes DEF ListsInv, Stages
      <4> QED BY <2>2, <4>2 DEF Collect, NotRaised
    <3> QED BY <1>1, <2>2, <3>1 DEF Stage, StageOfCreate, AllTrue, ListingBut
  <2>3. NotRaised(threads'[w]) /\ Stage(job'[w], threads'[w])
    BY <2>1, IdleType
       DEF Stage, StageOfList, StageOfCreate, StageOfRetrieve, StageOfUpdate, NotRaised
  <2> QED BY <1>1, <1>2, <2>1, <2>2, <2>3, GoCaches
<1>4. CASE ~End(w)
  <2>1. GoWith(w, "append", listing) /\ threads' = threads /\ listing # None
    BY <1>4 DEF Collect
  <2>2. /\ job'[w].at = "append" /\ job'[w].got = listing
        /\ \A v \in Workers : v # w => job'[v] = job[v]
    BY <1>1, <2>1, GoTypes DEF ListsInv, Stages
  <2>3. Stage(job[w], threads[w]) => Stage(job'[w], threads'[w])
    BY <1>1, <2>1, <2>2
       DEF Stage, StageOfList, StageOfCreate, StageOfRetrieve, StageOfUpdate, ListingBut
  <2> QED BY <1>1, <1>2, <2>1, <2>2, <2>3, GoCaches
<1> QED BY <1>3, <1>4

\* The listing goes back, and tells what RQM holds.
LEMMA StoreCaches ==
  ASSUME CachesInv, ListsInv, NEW w \in Workers, End(w), job[w].at # "idle",
         UNCHANGED <<rqm, sheets, history>>,
         Quiet /\ Stage(job[w], threads[w]) =>
           SheetsBut(0) /\ Exact(listing', DOMAIN cases, 0)
  PROVE  CachesInv'
<1>1. /\ cases' = cases /\ scripts' = scripts /\ sheets' = sheets
      /\ faults' = faults /\ overlap' = overlap
  BY DEF rqm, history
<1>2. /\ job'[w] = Idle /\ threads'[w] = << >>
      /\ \A v \in Workers : v # w => job'[v] = job[v] /\ threads'[v] = threads[v]
  BY EndTypes DEF ListsInv
<1>3. SheetsExist'
  BY <1>1 DEF CachesInv, SheetsExist
<1>4. Quiet' => Quiet /\ Stage(job[w], threads[w])
  BY <1>1 DEF CachesInv, Quiet
<1>5. ASSUME Quiet' PROVE AllTrue'
  <2>1. SheetsBut(0) /\ Exact(listing', DOMAIN cases, 0)
    BY <1>4, <1>5
  <2>2. SheetsBut(0)'
    BY <1>1, <2>1, SameViews
  <2>3. Exact(listing, DOMAIN cases, 0)'
    BY <1>1, <2>1 DEF Exact
  <2> QED BY <2>2, <2>3 DEF AllTrue, ListingBut
<1>6. Stage(job[w], threads[w])' /\ NotRaised(threads'[w])
  BY <1>2, IdleType
     DEF Stage, StageOfList, StageOfCreate, StageOfRetrieve, StageOfUpdate, NotRaised
<1> QED BY <1>2, <1>3, <1>4, <1>5, <1>6, CachesMove

\* A listing and the entries of other test cases name them all.
AddedTo(l, new, n, m, ids, more) ==
  /\ DOMAIN l.entries = 1 .. n /\ DOMAIN new.entries = 1 .. n + m
  /\ \A k \in 1 .. n : new.entries[k] = l.entries[k]
  /\ 0 \notin ids /\ 0 \notin more /\ ids \cap more = {}
  /\ \A k \in 1 .. m :
       /\ new.entries[n + k].id \in more
       /\ new.entries[n + k].name = cases[new.entries[n + k].id].title
  /\ \A j, k \in 1 .. m : new.entries[n + j].id = new.entries[n + k].id => j = k
  /\ \A id \in more : \E k \in 1 .. m : new.entries[n + k].id = id

LEMMA ExactExtends ==
  ASSUME NEW l, NEW new, NEW n \in Nat, NEW m \in Nat, NEW ids, NEW more,
         AddedTo(l, new, n, m, ids, more), Exact(l, ids, 0)
  PROVE  Exact(new, ids \cup more, 0)
<1> USE DEF AddedTo
<1>1. \A k \in 1 .. n :
        /\ new.entries[k].id \in ids
        /\ new.entries[k].name = cases[new.entries[k].id].title
  BY DEF Exact
<1>2. \A k \in 1 .. n + m : k \in 1 .. n \/ \E j \in 1 .. m : k = n + j
  <2>1. ASSUME NEW k \in 1 .. n + m, k \notin 1 .. n PROVE k - n \in 1 .. m /\ k = n + (k - n)
    BY <2>1
  <2> QED BY <2>1
<1>3. ASSUME NEW k \in 1 .. n + m
      PROVE  /\ new.entries[k].id \in ids \cup more
             /\ new.entries[k].name = cases[new.entries[k].id].title
  <2>1. CASE k \in 1 .. n
    BY <1>1, <2>1
  <2>2. CASE k \notin 1 .. n
    <3>1. PICK j \in 1 .. m : k = n + j
      BY <1>2, <2>2
    <3> QED BY <3>1
  <2> QED BY <2>1, <2>2
<1>4. ASSUME NEW k \in 1 .. n + m, NEW j \in 1 .. n + m, new.entries[k].id = new.entries[j].id
      PROVE  k = j
  <2>1. CASE k \in 1 .. n /\ j \in 1 .. n
    <3>1. \A a, b \in DOMAIN l.entries : l.entries[a].id = l.entries[b].id => a = b
      BY DEF Exact
    <3> QED BY <1>4, <2>1, <3>1
  <2>2. CASE k \notin 1 .. n /\ j \notin 1 .. n
    <3>1. PICK a \in 1 .. m, b \in 1 .. m : k = n + a /\ j = n + b
      BY <1>2, <2>2
    <3> QED BY <1>4, <3>1
  <2>3. CASE k \in 1 .. n /\ j \notin 1 .. n
    BY <1>1, <1>2, <1>4, <2>3
  <2>4. CASE k \notin 1 .. n /\ j \in 1 .. n
    BY <1>1, <1>2, <1>4, <2>4
  <2> QED BY <2>1, <2>2, <2>3, <2>4
<1>5. ASSUME NEW id \in ids \cup more PROVE \E k \in 1 .. n + m : new.entries[k].id = id
  <2>1. CASE id \in ids
    <3>1. PICK k \in 1 .. n : l.entries[k].id = id
      BY <2>1 DEF Exact
    <3> QED BY <3>1
  <2>2. CASE id \in more
    <3>1. PICK k \in 1 .. m : new.entries[n + k].id = id
      BY <2>2
    <3>2. n + k \in 1 .. n + m
      OBVIOUS
    <3> QED BY <3>1, <3>2
  <2> QED BY <2>1, <2>2
<1> QED BY <1>3, <1>4, <1>5 DEF Exact

\* What a bulk creation made goes to the end of the listing.
LEMMA AppendCaches ==
  ASSUME CachesInv, ListsInv, NEW w \in Workers, StoreAppended(w)
  PROVE  CachesInv'
<1> DEFINE got == job[w].got
           made == Made(threads[w])
           new == Extended(got, made)
           n == Len(got.entries)
           ids == MadeIds(threads[w])
<1>1. /\ job[w].at = "append" /\ listing' = new /\ End(w)
      /\ UNCHANGED <<rqm, sheets, history>>
  BY DEF StoreAppended
<1>2. /\ new \in Listing /\ got \in Listing
      /\ Len(made) \in Nat /\ n \in Nat
      /\ Len(new.entries) = n + Len(made)
      /\ \A k \in 1 .. n : new.entries[k] = got.entries[k]
      /\ \A k \in 1 .. Len(made) :
           new.entries[n + k] = [id |-> made[k].id, name |-> made[k].doc]
  BY <1>1, EntriesAppended
<1>3. PICK f \in Bijection(1 .. Len(made), {i \in DOMAIN threads[w] : threads[w][i].at = "made"}) :
        \A k \in 1 .. Len(made) : made[k] = threads[w][f[k]]
  BY MadeAre
<1>4. /\ \A k \in 1 .. Len(made) : f[k] \in MadeBy(threads[w])
      /\ \A j, k \in 1 .. Len(made) : f[j] = f[k] => j = k
      /\ \A i \in MadeBy(threads[w]) : \E k \in 1 .. Len(made) : f[k] = i
  BY <1>3 DEF Bijection, Injection, IsInjective, Surjection, MadeBy
<1>5. \A i \in MadeBy(threads[w]) : threads[w][i].id \in DOMAIN cases
  BY <1>1 DEF ListsInv, Has, Placed, MadeBy
<1>6. ids \subseteq DOMAIN cases /\ 0 \notin DOMAIN cases
  BY <1>5, Sequences DEF ListsInv, MadeIds
<1>7. DOMAIN got.entries = 1 .. n /\ DOMAIN new.entries = 1 .. n + Len(made)
  BY <1>2, ListingTypes
<1> HIDE DEF got, made, new, n
<1>8. ASSUME MadeRightly(threads[w])
      PROVE  /\ \A k \in 1 .. Len(made) :
                  /\ new.entries[n + k].id \in ids
                  /\ new.entries[n + k].name = cases[new.entries[n + k].id].title
             /\ \A j, k \in 1 .. Len(made) : new.entries[n + j].id = new.entries[n + k].id => j = k
             /\ \A id \in ids : \E k \in 1 .. Len(made) : new.entries[n + k].id = id
  <2>1. ASSUME NEW k \in 1 .. Len(made)
        PROVE  /\ new.entries[n + k].id = threads[w][f[k]].id
               /\ new.entries[n + k].name = threads[w][f[k]].doc
    <3>1. new.entries[n + k] = [id |-> made[k].id, name |-> made[k].doc]
      BY <1>2
    <3>2. made[k] = threads[w][f[k]]
      BY <1>3
    <3> QED BY <3>1, <3>2
  <2> QED BY <1>4, <1>8, <2>1 DEF MadeRightly, MadeIds
<1>9. ASSUME Stage(job[w], threads[w])
      PROVE  SheetsBut(0) /\ Exact(new, DOMAIN cases, 0)
  <2>1. /\ SheetsBut(0) /\ MadeRightly(threads[w])
        /\ Exact(got, DOMAIN cases \ ids, 0)
    BY <1>1, <1>9 DEF Stage, StageOfCreate, got
  <2>2. DOMAIN cases = (DOMAIN cases \ ids) \cup ids
    BY <1>6
  <2>3. Exact(new, (DOMAIN cases \ ids) \cup ids, 0)
    <3> HIDE DEF ids
    <3>1. PICK old : old = DOMAIN cases \ ids
      OBVIOUS
    <3>2. 0 \notin old /\ 0 \notin ids /\ old \cap ids = {}
      BY <1>6, <3>1
    <3>3. Exact(new, old \cup ids, 0)
      <4>1. /\ Exact(got, old, 0)
            /\ \A k \in 1 .. Len(made) :
                 /\ new.entries[n + k].id \in ids
                 /\ new.entries[n + k].name = cases[new.entries[n + k].id].title
            /\ \A j, k \in 1 .. Len(made) :
                 new.entries[n + j].id = new.entries[n + k].id => j = k
            /\ \A id \in ids : \E k \in 1 .. Len(made) : new.entries[n + k].id = id
        BY <1>8, <2>1, <3>1
      <4>2. AddedTo(got, new, n, Len(made), old, ids)
        BY <1>2, <1>7, <3>2, <4>1 DEF AddedTo
      <4> QED BY <1>2, <4>1, <4>2, ExactExtends
    <3> QED BY <3>1, <3>3
  <2> QED BY <2>1, <2>2, <2>3
<1> QED BY <1>1, <1>9, StoreCaches

\* The position of the first entry with an id.
PositionOf(entries, id) == SelectInSeq(entries, LAMBDA e : e.id = id)

LEMMA FirstWithId ==
  ASSUME NEW l \in Listing, NEW id, \E m \in DOMAIN l.entries : l.entries[m].id = id,
         NEW k, k = PositionOf(l.entries, id)
  PROVE  k \in DOMAIN l.entries /\ k # 0 /\ l.entries[k].id = id
<1> DEFINE I == {i \in 1 .. Len(l.entries) : l.entries[i].id = id}
<1>1. DOMAIN l.entries = 1 .. Len(l.entries) /\ Len(l.entries) \in Nat
  BY ListingTypes
<1>2. I # {} /\ I \subseteq Nat
  BY <1>1
<1>3. PICK x \in I : \A y \in I : x <= y
  <2>1. PICK z \in I : TRUE
    BY <1>2
  <2>2. PICK n \in Nat : n = Len(l.entries)
    BY <1>1
  <2>3. IsFiniteSet(1 .. n)
    BY FS_Interval
  <2>4. IsFiniteSet(I)
    BY <2>2, <2>3, FS_Subset
  <2> HIDE DEF I
  <2> QED BY <1>2, <2>4, LeastIsThere
<1>4. k = Min(I)
  BY <1>2 DEF SelectInSeq, PositionOf
<1>5. Min(I) \in I
  <2> HIDE DEF I
  <2> QED BY <1>3 DEF Min
<1>6. k \in I
  BY <1>4, <1>5
<1> QED BY <1>1, <1>6

\* The listing gets the new title.
LEMMA RenameCaches ==
  ASSUME CachesInv, ListsInv, NEW w \in Workers, StoreRenamed(w)
  PROVE  CachesInv'
<1> DEFINE got == job[w].got
           id == job[w].id
           doc == threads[w][1].doc
<1>1. PICK k : k = PositionOf(got.entries, id)
  OBVIOUS
<1>2. /\ job[w].at = "rename" /\ End(w) /\ UNCHANGED <<rqm, sheets, history>>
      /\ listing' = Renamed(got, k, doc)
  BY <1>1 DEF StoreRenamed, Renamed, PositionOf
<1>3. got \in Listing /\ DOMAIN threads[w] = {1} /\ doc \in Docs /\ id \in DOMAIN cases
  BY <1>2 DEF ListsInv, Has, Placed
<1>4. ASSUME Stage(job[w], threads[w])
      PROVE  SheetsBut(0) /\ Exact(listing', DOMAIN cases, 0)
  <2>1. /\ SheetsBut(0) /\ cases[id].title = doc /\ Exact(got, DOMAIN cases, id)
    BY <1>2, <1>4 DEF Stage, StageOfUpdate
  <2> HIDE DEF got, id, doc
  <2>2. \E m \in DOMAIN got.entries : got.entries[m].id = id
    BY <1>3, <2>1 DEF Exact
  <2>3. k \in DOMAIN got.entries /\ k # 0 /\ got.entries[k].id = id
    BY <1>1, <1>3, <2>2, FirstWithId
  <2>4. PICK new : new = Renamed(got, k, doc)
    OBVIOUS
  <2>5. /\ DOMAIN new.entries = DOMAIN got.entries
        /\ \A m \in DOMAIN got.entries :
             /\ new.entries[m].id = got.entries[m].id
             /\ new.entries[m].name = IF k # 0 /\ m = k THEN doc ELSE got.entries[m].name
    BY <1>3, <2>4, RenamedListing
  <2>6. ASSUME NEW m \in DOMAIN got.entries
        PROVE  new.entries[m].name = cases[new.entries[m].id].title
    <3>1. CASE m = k
      BY <2>1, <2>3, <2>5, <3>1
    <3>2. CASE m # k
      <4>1. got.entries[m].id # id
        BY <2>1, <2>3, <3>2 DEF Exact
      <4> QED BY <2>1, <2>5, <3>2, <4>1 DEF Exact
    <3> QED BY <3>1, <3>2
  <2>7. Exact(new, DOMAIN cases, 0)
    BY <2>1, <2>5, <2>6 DEF Exact
  <2> QED BY <1>2, <2>1, <2>4, <2>7
<1> QED BY <1>2, <1>4, StoreCaches

\* retrieve stores what it has read.
LEMMA SheetCaches ==
  ASSUME CachesInv, ListsInv, NEW w \in Workers, StoreSheet(w)
  PROVE  CachesInv'
<1>1. /\ job[w].at = "sheet" /\ End(w) /\ listing' = listing
      /\ sheets' = [sheets EXCEPT ![job[w].id] = job[w].got]
      /\ cases' = cases /\ scripts' = scripts /\ faults' = faults /\ overlap' = overlap
  BY DEF StoreSheet, rqm, history
<1>2. /\ job'[w] = Idle /\ threads'[w] = << >>
      /\ \A v \in Workers : v # w => job'[v] = job[v] /\ threads'[v] = threads[v]
  BY <1>1, EndTypes DEF ListsInv
<1>3. job[w].id \in DOMAIN cases /\ sheets \in [CaseIds -> {None} \cup Sheet]
  BY <1>1 DEF ListsInv, TypeOK, Has
<1>4. SheetsExist'
  BY <1>1, <1>3 DEF CachesInv, SheetsExist
<1>5. Quiet' => Quiet /\ Stage(job[w], threads[w])
  BY <1>1 DEF CachesInv, Quiet
<1>6. ASSUME Stage(job[w], threads[w]) PROVE AllTrue'
  <2>1. AllTrue /\ job[w].got = TrueSheet(job[w].id)
    BY <1>1, <1>6 DEF Stage, StageOfRetrieve
  <2>2. ASSUME NEW c \in DOMAIN cases, sheets'[c] # None PROVE sheets'[c] = TrueSheet(c)
    <3>1. DOMAIN cases \subseteq CaseIds
      BY RoomIsLeft
    <3>2. c # 0
      BY Sequences DEF ListsInv
    <3> QED BY <1>1, <1>3, <2>1, <2>2, <3>1, <3>2 DEF AllTrue, SheetsBut
  <2>3. SheetsBut(0)'
    BY <1>1, <2>2 DEF SheetsBut, TrueSheet
  <2>4. ListingBut(DOMAIN cases, 0)'
    BY <1>1, <2>1, SameViews DEF AllTrue, ListingBut, Exact
  <2> QED BY <2>3, <2>4 DEF AllTrue
<1>7. Stage(job[w], threads[w])' /\ NotRaised(threads'[w])
  BY <1>2, IdleType
     DEF Stage, StageOfList, StageOfCreate, StageOfRetrieve, StageOfUpdate, NotRaised
<1> QED BY <1>1, <1>2, <1>4, <1>5, <1>6, <1>7, CachesMove

\* update stores its own document.
LEMMA RestoreCaches ==
  ASSUME CachesInv, ListsInv, NEW w \in Workers, StoreUpdate(w)
  PROVE  CachesInv'
<1> DEFINE id == job[w].id
           doc == threads[w][1].doc
<1>1. /\ job[w].at = "restore" /\ Goto(w, "reread") /\ listing' = listing
      /\ sheets' = [sheets EXCEPT ![id] = [title |-> doc, steps |-> doc]]
      /\ cases' = cases /\ scripts' = scripts /\ faults' = faults /\ overlap' = overlap
      /\ threads' = threads
  BY DEF StoreUpdate, rqm, history
<1>2. /\ job'[w].at = "reread" /\ job'[w].id = id
      /\ \A v \in Workers : v # w => job'[v] = job[v]
  <2>1. job[w].got \in GotType
    BY JobTypes DEF ListsInv
  <2> QED BY <1>1, <2>1, GoTypes DEF ListsInv, Stages
<1>3. /\ id \in DOMAIN cases /\ sheets \in [CaseIds -> {None} \cup Sheet]
      /\ DOMAIN cases \subseteq CaseIds /\ 0 \notin DOMAIN cases
  BY <1>1, RoomIsLeft, Sequences DEF ListsInv, TypeOK, Has
<1>4. SheetsExist'
  BY <1>1, <1>3 DEF CachesInv, SheetsExist
<1>5. ASSUME Quiet'
      PROVE  Quiet /\ NotRaised(threads'[w]) /\ Stage(job[w], threads[w])'
  <2>1. Quiet
    BY <1>1, <1>5 DEF Quiet
  <2>2. NotRaised(threads[w]) /\ Stage(job[w], threads[w])
    BY <2>1 DEF CachesInv
  <2>3. /\ SheetsBut(id) /\ ListingBut(DOMAIN cases, id) /\ cases[id].title = doc
        /\ scripts[cases[id].script].steps = doc
    BY <1>1, <2>2 DEF Stage, StageOfUpdate
  <2>4. ASSUME NEW c \in DOMAIN cases, sheets'[c] # None PROVE sheets'[c] = TrueSheet(c)
    <3>1. CASE c = id
      BY <1>1, <1>3, <2>3, <3>1 DEF TrueSheet
    <3>2. CASE c # id
      BY <1>1, <1>3, <2>3, <2>4, <3>2 DEF SheetsBut
    <3> QED BY <3>1, <3>2
  <2>5. SheetsBut(0)'
    BY <1>1, <2>4 DEF SheetsBut, TrueSheet
  <2>6. ListingBut(DOMAIN cases, id)'
    BY <1>1, <1>2, <2>3 DEF ListingBut, Exact
  <2>7. cases'[job'[w].id].title = threads'[w][1].doc
    BY <1>1, <1>2, <2>3
  <2>8. Stage(job[w], threads[w])'
    BY <1>1, <1>2, <2>5, <2>6, <2>7
       DEF Stage, StageOfList, StageOfCreate, StageOfRetrieve, StageOfUpdate
  <2> QED BY <1>1, <2>1, <2>2, <2>8
<1> QED BY <1>1, <1>2, <1>4, <1>5, CachesMove

\* The listing to rename in is read.
LEMMA RereadCaches ==
  ASSUME CachesInv, ListsInv, NEW w \in Workers, ReadListing(w)
  PROVE  CachesInv'
<1>1. /\ job[w].at = "reread" /\ UNCHANGED <<rqm, caches>>
      /\ faults' = faults /\ overlap' = overlap
      /\ listing \in GotType
  BY DEF ReadListing, history, ListsInv, TypeOK, GotType
<1>2. Quiet' => Quiet
  BY <1>1 DEF Quiet
<1>3. CASE listing = None
  <2>1. End(w)
    BY <1>3 DEF ReadListing
  <2>2. /\ job'[w] = Idle /\ threads'[w] = << >>
        /\ \A v \in Workers : v # w => job'[v] = job[v] /\ threads'[v] = threads[v]
    BY <2>1, EndTypes DEF ListsInv
  <2>3. Stage(job[w], threads[w]) => AllTrue
    BY <1>1, <1>3 DEF Stage, StageOfUpdate, AllTrue, ListingBut
  <2>4. NotRaised(threads'[w]) /\ Stage(job'[w], threads'[w])
    BY <2>2, IdleType
       DEF Stage, StageOfList, StageOfCreate, StageOfRetrieve, StageOfUpdate, NotRaised
  <2> QED BY <1>1, <1>2, <2>2, <2>3, <2>4, GoCaches
<1>4. CASE listing # None
  <2>1. GoWith(w, "rename", listing) /\ threads' = threads
    BY <1>4 DEF ReadListing
  <2>2. /\ job'[w].at = "rename" /\ job'[w].got = listing /\ job'[w].id = job[w].id
        /\ \A v \in Workers : v # w => job'[v] = job[v]
    BY <1>1, <2>1, GoTypes DEF ListsInv, Stages
  <2>3. Stage(job[w], threads[w]) => Stage(job'[w], threads'[w])
    BY <1>1, <1>4, <2>1, <2>2
       DEF Stage, StageOfList, StageOfCreate, StageOfRetrieve, StageOfUpdate, ListingBut
  <2> QED BY <1>1, <1>2, <2>1, <2>2, <2>3, GoCaches
<1> QED BY <1>3, <1>4

----
(* Reading and writing a test case, for the caches. *)

\* What is read of a test case.
LEMMA GetCaseCaches ==
  ASSUME CachesInv, ListsInv, ScriptInv, NEW w \in Workers, GetCase(w)
  PROVE  CachesInv'
<1> DEFINE t == threads[w][1]
           case == cases[job[w].id]
<1>1. /\ 1 \in DOMAIN threads[w] /\ DOMAIN threads[w] = {1} /\ t \in Thread
      /\ t.at = "get_case" /\ job[w].at \in {"retrieve", "update"} /\ case \in CaseType
  BY OneThreadLists DEF GetCase
<1>2. /\ threads' = [threads EXCEPT ![w][1] =
           IF job[w].at = "retrieve"
             THEN [t EXCEPT !.script = case.script, !.doc = case.title, !.at = "get_script"]
             ELSE [t EXCEPT !.script = case.script, !.at = "put_case"]]
      /\ job' = job /\ UNCHANGED <<rqm, caches>> /\ faults' = faults /\ overlap' = overlap
  BY DEF GetCase, history
<1> HIDE DEF t, case
<1>3. PICK x \in Thread :
        /\ threads' = [threads EXCEPT ![w][1] = x] /\ x.script = case.script
        /\ job[w].at = "retrieve" => x.at = "get_script" /\ x.doc = case.title
        /\ job[w].at = "update" => x.at = "put_case"
  <2> DEFINE read == [t EXCEPT !.script = case.script, !.doc = case.title, !.at = "get_script"]
             kept == [t EXCEPT !.script = case.script, !.at = "put_case"]
  <2>1. case.script \in Nat /\ case.title \in Docs
    BY <1>1 DEF CaseType
  <2>2. read \in Thread /\ read.at = "get_script" /\ read.doc = case.title /\ read.script = case.script
    BY <1>1, <2>1 DEF Thread
  <2>3. kept \in Thread /\ kept.at = "put_case" /\ kept.script = case.script
    BY <1>1, <2>1 DEF Thread
  <2>4. threads' = [threads EXCEPT ![w][1] = IF job[w].at = "retrieve" THEN read ELSE kept]
    BY <1>2
  <2> HIDE DEF read, kept
  <2>5. CASE job[w].at = "retrieve"
    BY <2>2, <2>4, <2>5
  <2>6. CASE job[w].at = "update"
    BY <2>3, <2>4, <2>6
  <2> QED BY <1>1, <2>5, <2>6
<1>4. /\ DOMAIN threads'[w] = {1} /\ threads'[w][1] = x
      /\ \A v \in Workers : v # w => threads'[v] = threads[v]
  <2>1. threads' = [threads EXCEPT ![w][1] = x]
    BY <1>3
  <2> QED BY <1>1, <2>1, ThreadMoves DEF ScriptInv
<1>5. NotRaised(threads'[w])
  BY <1>1, <1>3, <1>4 DEF NotRaised
<1>6. ASSUME Stage(job[w], threads[w]) PROVE Stage(job[w], threads'[w])
  <2>1. AllTrue
    BY <1>1, <1>6 DEF Stage, StageOfRetrieve, StageOfUpdate, t
  <2> QED BY <1>1, <1>3, <1>4, <2>1
             DEF Stage, StageOfList, StageOfCreate, StageOfRetrieve, StageOfUpdate, case
<1>7. Quiet' => Quiet
  BY <1>2 DEF Quiet
<1> QED BY <1>1, <1>2, <1>4, <1>5, <1>6, <1>7, GoCaches

\* What is read of its script: the sheet is the true one.
LEMMA GetScriptCaches ==
  ASSUME CachesInv, ListsInv, ScriptInv, NEW w \in Workers, GetScript(w)
  PROVE  CachesInv'
<1> DEFINE t == threads[w][1]
           sheet == [title |-> t.doc, steps |-> scripts[t.script].steps]
<1>1. /\ 1 \in DOMAIN threads[w] /\ DOMAIN threads[w] = {1} /\ t \in Thread
      /\ t.at = "get_script" /\ job[w].at = "retrieve"
      /\ t.doc \in Docs /\ t.script \in DOMAIN scripts
  BY OneThreadLists DEF GetScript, Placed
<1>2. /\ GoWith(w, "sheet", sheet) /\ Step(w, 1, "made")
      /\ UNCHANGED <<rqm, caches>> /\ faults' = faults /\ overlap' = overlap
  BY DEF GetScript, history
<1>3. sheet \in GotType
  <2>1. scripts[t.script] \in ScriptType
    BY <1>1, Sequences DEF ListsInv
  <2> QED BY <1>1, <2>1 DEF Sheet, ScriptType, GotType
<1>4. /\ job'[w].at = "sheet" /\ job'[w].id = job[w].id /\ job'[w].got = sheet
      /\ \A v \in Workers : v # w => job'[v] = job[v]
  <2> HIDE DEF sheet
  <2> QED BY <1>2, <1>3, GoTypes DEF ListsInv, Stages
<1>5. PICK x \in Thread :
        /\ x.at = "made" /\ DOMAIN threads'[w] = DOMAIN threads[w] /\ threads'[w][1] = x
        /\ \A v \in Workers : v # w => threads'[v] = threads[v]
  <2> HIDE DEF t
  <2> QED BY <1>1, <1>2, StepLists
<1>6. NotRaised(threads'[w])
  BY <1>1, <1>5 DEF NotRaised
<1>7. ASSUME Stage(job[w], threads[w]) PROVE Stage(job'[w], threads'[w])
  <2>1. AllTrue /\ t.doc = cases[job[w].id].title /\ t.script = cases[job[w].id].script
    BY <1>1, <1>7 DEF Stage, StageOfRetrieve
  <2>2. sheet = TrueSheet(job[w].id)
    BY <2>1 DEF TrueSheet
  <2> HIDE DEF sheet
  <2> QED BY <1>4, <2>1, <2>2
             DEF Stage, StageOfList, StageOfCreate, StageOfRetrieve, StageOfUpdate
<1>8. Quiet' => Quiet
  BY <1>2 DEF Quiet
<1> HIDE DEF sheet, t
<1> QED BY <1>1, <1>2, <1>4, <1>5, <1>6, <1>7, <1>8, GoCaches

\* The title is written: its sheet and its entry are old.
LEMMA PutCaseCaches ==
  ASSUME CachesInv, ListsInv, ScriptInv, NEW w \in Workers, PutCase(w)
  PROVE  CachesInv'
<1> DEFINE id == job[w].id
           doc == threads[w][1].doc
<1>1. /\ 1 \in DOMAIN threads[w] /\ DOMAIN threads[w] = {1} /\ threads[w][1].at = "put_case"
      /\ job[w].at = "update" /\ id \in DOMAIN cases /\ doc \in Docs
  <2>1. /\ 1 \in DOMAIN threads[w] /\ DOMAIN threads[w] = {1} /\ threads[w][1].at = "put_case"
        /\ job[w].at \in {"retrieve", "update"} /\ Placed(job[w].at, threads[w][1])
        /\ id \in DOMAIN cases
    BY OneThreadLists DEF PutCase
  <2> QED BY <2>1 DEF Placed
<1>2. Grows /\ DOMAIN cases' = DOMAIN cases
  BY PutRqm
<1>3. UNCHANGED caches /\ Step(w, 1, "put_script") /\ job' = job /\ overlap' = overlap
  BY DEF PutCase
<1>4. CASE Fault("refuse")
  BY <1>2, <1>3, <1>4, FaultKeeps
<1>5. CASE ~Fault("refuse")
  <2>1. /\ cases' = [cases EXCEPT ![id].title = doc] /\ scripts' = scripts /\ faults' = faults
        /\ sheets' = sheets /\ listing' = listing
    BY <1>5 DEF PutCase, caches
  <2>2. PICK t \in Thread :
          /\ t.at = "put_script" /\ t.doc = doc /\ t.script = threads[w][1].script
          /\ DOMAIN threads'[w] = DOMAIN threads[w] /\ threads'[w][1] = t
          /\ \A v \in Workers : v # w => threads'[v] = threads[v]
    BY <1>1, <1>3, StepLists
  <2>3. /\ cases'[id].title = doc /\ cases'[id].script = cases[id].script
        /\ \A c \in DOMAIN cases : c # id => cases'[c] = cases[c]
    <3>1. cases[id] \in CaseType /\ cases \in Seq(CaseType)
      BY <1>1, Sequences DEF ListsInv, TypeOK, CaseType
    <3> QED BY <1>1, <2>1, <3>1 DEF CaseType
  <2>4. SheetsExist'
    BY <1>2, <2>1 DEF CachesInv, SheetsExist
  <2>5. ASSUME Quiet'
        PROVE  Quiet /\ NotRaised(threads'[w]) /\ Stage(job[w], threads[w])'
    <3>1. Quiet
      BY <1>3, <2>1, <2>5 DEF Quiet
    <3>2. NotRaised(threads[w]) /\ Stage(job[w], threads[w])
      BY <3>1 DEF CachesInv
    <3>3. NotRaised(threads'[w])
      BY <1>1, <2>2 DEF NotRaised
    <3>4. AllTrue /\ threads[w][1].script = cases[id].script
      BY <1>1, <3>2 DEF Stage, StageOfUpdate
    <3>5. SheetsBut(id)'
      <4>1. 0 \notin DOMAIN cases
        BY Sequences DEF ListsInv
      <4>2. ASSUME NEW c \in DOMAIN cases, c # id, sheets[c] # None
            PROVE  sheets[c] = TrueSheet(c)'
        BY <2>1, <2>3, <3>4, <4>1, <4>2 DEF AllTrue, SheetsBut, TrueSheet
      <4>3. PICK j : j = id
        OBVIOUS
      <4>4. SheetsBut(j)'
        BY <1>2, <2>1, <4>2, <4>3 DEF SheetsBut
      <4> QED BY <1>3, <4>3, <4>4
    <3>6. ListingBut(DOMAIN cases, id)'
      <4>1. 0 \notin DOMAIN cases
        BY Sequences DEF ListsInv
      <4>2. PICK l, ids, j : l = listing /\ ids = DOMAIN cases /\ j = id
        OBVIOUS
      <4>3. Exact(l, ids, 0) => Exact(l, ids, j)
        BY <4>1, <4>2 DEF Exact
      <4>4. \A c \in ids : c # j => cases'[c].title = cases[c].title
        BY <2>3, <4>2
      <4>5. Exact(l, ids, 0) => Exact(l, ids, j)'
        BY <4>3, <4>4, ExactStays
      <4> QED BY <1>2, <1>3, <2>1, <3>4, <4>2, <4>5 DEF AllTrue, ListingBut
    <3>7. Stage(job[w], threads[w])'
      BY <1>1, <1>3, <2>2, <2>3, <3>4, <3>5, <3>6
         DEF Stage, StageOfList, StageOfCreate, StageOfRetrieve, StageOfUpdate
    <3> QED BY <3>1, <3>3, <3>7
  <2> QED BY <1>1, <1>3, <2>2, <2>4, <2>5, CachesMove
<1> QED BY <1>4, <1>5

\* Its steps are written, and no other test case's.
LEMMA PutScriptCaches ==
  ASSUME CachesInv, ListsInv, ScriptInv, NEW w \in Workers, PutScript(w)
  PROVE  CachesInv'
<1> DEFINE id == job[w].id
           doc == threads[w][1].doc
           s == threads[w][1].script
<1>1. /\ 1 \in DOMAIN threads[w] /\ DOMAIN threads[w] = {1} /\ threads[w][1].at = "put_script"
      /\ job[w].at = "update" /\ id \in DOMAIN cases /\ doc \in Docs
      /\ cases[id].script \in DOMAIN scripts
  <2>1. /\ 1 \in DOMAIN threads[w] /\ DOMAIN threads[w] = {1} /\ threads[w][1].at = "put_script"
        /\ job[w].at \in {"retrieve", "update"} /\ Placed(job[w].at, threads[w][1])
        /\ id \in DOMAIN cases /\ cases[id].script \in DOMAIN scripts
    BY OneThreadLists DEF PutScript
  <2> QED BY <2>1 DEF Placed
<1>2. Grows
  BY PutRqm
<1>3. /\ UNCHANGED caches /\ Step(w, 1, "made") /\ Goto(w, "restore") /\ overlap' = overlap
  BY DEF PutScript
<1>4. CASE Fault("refuse")
  BY <1>2, <1>3, <1>4, FaultKeeps
<1>5. CASE ~Fault("refuse")
  <2>1. /\ scripts' = [scripts EXCEPT ![s] = TestscriptTemplate(doc)]
        /\ cases' = cases /\ faults' = faults /\ sheets' = sheets /\ listing' = listing
    BY <1>5 DEF PutScript, caches
  <2>2. PICK t \in Thread :
          /\ t.at = "made" /\ t.doc = doc
          /\ DOMAIN threads'[w] = DOMAIN threads[w] /\ threads'[w][1] = t
          /\ \A v \in Workers : v # w => threads'[v] = threads[v]
    BY <1>1, <1>3, StepLists
  <2>3. /\ job'[w].at = "restore" /\ job'[w].id = id
        /\ \A v \in Workers : v # w => job'[v] = job[v]
    <3>1. job[w].got \in GotType
      BY JobTypes DEF ListsInv
    <3> QED BY <1>3, <3>1, GoTypes DEF ListsInv, Stages
  <2>4. SheetsExist'
    BY <2>1 DEF CachesInv, SheetsExist
  <2>5. ASSUME Quiet'
        PROVE  Quiet /\ NotRaised(threads'[w]) /\ Stage(job[w], threads[w])'
    <3>1. Quiet
      BY <1>3, <2>1, <2>5 DEF Quiet
    <3>2. NotRaised(threads[w]) /\ Stage(job[w], threads[w])
      BY <3>1 DEF CachesInv
    <3>3. NotRaised(threads'[w])
      BY <1>1, <2>2 DEF NotRaised
    <3>4. /\ SheetsBut(id) /\ ListingBut(DOMAIN cases, id) /\ cases[id].title = doc
          /\ s = cases[id].script
      BY <1>1, <3>2 DEF Stage, StageOfUpdate
    <3>5. /\ scripts'[s] = TestscriptTemplate(doc)
          /\ \A c \in DOMAIN cases : c # id => scripts'[cases[c].script] = scripts[cases[c].script]
      <4>1. scripts \in Seq(ScriptType)
        BY DEF ListsInv, TypeOK, ScriptType
      <4>2. \A c \in DOMAIN cases : cases[c].script \in DOMAIN scripts
        BY DEF ScriptInv, OwnScript
      <4>3. \A c \in DOMAIN cases : c # id => cases[c].script # s
        BY <1>1, <3>4 DEF ScriptInv, OwnScript
      <4> HIDE DEF s, id, doc
      <4> QED BY <1>1, <2>1, <3>4, <4>1, <4>2, <4>3
    <3>6. SheetsBut(id)'
      <4>1. PICK j : j = id
        OBVIOUS
      <4>2. ASSUME NEW c \in DOMAIN cases, c # j, sheets[c] # None
            PROVE  sheets[c] = TrueSheet(c)'
        BY <2>1, <3>4, <3>5, <4>1, <4>2 DEF SheetsBut, TrueSheet
      <4>3. SheetsBut(j)'
        BY <2>1, <4>2 DEF SheetsBut
      <4> QED BY <2>3, <4>1, <4>3
    <3>7. ListingBut(DOMAIN cases, id)'
      BY <2>1, <2>3, <3>4 DEF ListingBut, Exact
    <3>8. cases'[id].title = doc /\ scripts'[cases'[id].script].steps = doc
      BY <2>1, <3>4, <3>5 DEF TestscriptTemplate
    <3>9. Stage(job[w], threads[w])'
      BY <2>2, <2>3, <3>6, <3>7, <3>8
         DEF Stage, StageOfList, StageOfCreate, StageOfRetrieve, StageOfUpdate
    <3> QED BY <3>1, <3>3, <3>9
  <2> QED BY <1>1, <2>2, <2>3, <2>4, <2>5, CachesMove
<1> QED BY <1>4, <1>5

LEMMA PutLostCaches ==
  ASSUME CachesInv, ListsInv, ScriptInv, NEW w \in Workers, PutLost(w)
  PROVE  CachesInv'
<1>1. Grows /\ Fault("lost") /\ UNCHANGED caches
  BY PutRqm DEF PutLost
<1> QED BY <1>1, FaultKeeps

----
(* The caches, at last. *)

\* What expires is not wrong.
LEMMA ExpireCaches ==
  ASSUME CachesInv, ListsInv, Expire
  PROVE  CachesInv'
<1>1. /\ cases' = cases /\ scripts' = scripts /\ job' = job /\ threads' = threads
      /\ faults' = faults /\ overlap' = overlap
      /\ listing' = listing \/ listing' = None
      /\ \A id \in CaseIds : sheets'[id] = sheets[id] \/ sheets'[id] = None
  BY DEF Expire, rqm, history, ListsInv, TypeOK
<1>2. \A x : SheetsBut(x) => SheetsBut(x)'
  <2>1. DOMAIN cases \subseteq CaseIds
    BY RoomIsLeft
  <2> QED BY <1>1, <2>1 DEF SheetsBut, TrueSheet
<1>3. /\ \A l, ids, x : Exact(l, ids, x) => Exact(l, ids, x)'
      /\ \A ts : MadeRightly(ts) => MadeRightly(ts)'
      /\ \A l : ReadSoFar(l) => ReadSoFar(l)'
      /\ \A id : TrueSheet(id)' = TrueSheet(id)
  BY <1>1, SameViews
<1>4. \A ids, x : ListingBut(ids, x) => ListingBut(ids, x)'
  BY <1>1, <1>3 DEF ListingBut
<1>5. AllTrue => AllTrue'
  BY <1>1, <1>2, <1>4 DEF AllTrue
<1>6. ASSUME NEW j, NEW ts, Stage(j, ts) PROVE Stage(j, ts)'
  <2>1. StageOfList(j)'
    BY <1>1, <1>2, <1>3, <1>6 DEF Stage, StageOfList
  <2>2. StageOfCreate(j, ts)'
    BY <1>1, <1>2, <1>3, <1>4, <1>6 DEF Stage, StageOfCreate
  <2>3. StageOfRetrieve(j, ts)'
    BY <1>1, <1>3, <1>5, <1>6 DEF Stage, StageOfRetrieve
  <2>4. StageOfUpdate(j, ts)'
    BY <1>1, <1>2, <1>3, <1>4, <1>5, <1>6 DEF Stage, StageOfUpdate
  <2> QED BY <2>1, <2>2, <2>3, <2>4 DEF Stage
<1>7. SheetsExist'
  BY <1>1 DEF CachesInv, SheetsExist
<1>8. ASSUME Quiet'
      PROVE  /\ Alone' /\ (\A w \in Workers : NotRaised(threads[w]))'
             /\ AllIdle' => AllTrue'
             /\ (\A w \in Workers : Stage(job[w], threads[w]))'
  <2>1. Quiet
    BY <1>1, <1>8 DEF Quiet
  <2>2. Alone' /\ (\A w \in Workers : NotRaised(threads[w]))'
    BY <1>1, <2>1 DEF CachesInv, Alone, NotRaised
  <2>3. AllIdle' => AllTrue'
    BY <1>1, <1>5, <2>1 DEF CachesInv, AllIdle
  <2>4. ASSUME NEW w \in Workers PROVE Stage(job[w], threads[w])'
    <3>1. PICK j, ts : j = job[w] /\ ts = threads[w]
      OBVIOUS
    <3>2. Stage(j, ts)'
      BY <1>6, <2>1, <3>1 DEF CachesInv
    <3> QED BY <1>1, <3>1, <3>2
  <2> QED BY <2>2, <2>3, <2>4
<1> QED BY <1>7, <1>8 DEF CachesInv

LEMMA CachesInit == Init => CachesInv
<1> SUFFICES ASSUME Init PROVE CachesInv
  OBVIOUS
<1>1. PICK doc \in Docs :
        /\ cases = <<TestcaseTemplate(doc, 1)>>
        /\ listing \in {None, [entries |-> <<[id |-> 1, name |-> doc]>>, number |-> 1,
                               success |-> TRUE]}
  BY DEF Init
<1>2. /\ \A w \in Workers : job[w].at = "idle" /\ threads[w] = << >>
      /\ \A id \in CaseIds : sheets[id] = None
  BY IdleType DEF Init
<1>3. ListingBut(DOMAIN cases, 0)
  <2> DEFINE e == [id |-> 1, name |-> doc]
             l == [entries |-> <<e>>, number |-> 1, success |-> TRUE]
             case == TestcaseTemplate(doc, 1)
  <2>1. e.id = 1 /\ e.name = doc /\ case.title = doc
    BY DEF TestcaseTemplate
  <2>2. l.entries = <<e>> /\ listing \in {None, l} /\ cases = <<case>>
    BY <1>1
  <2> HIDE DEF e, l, case
  <2>3. /\ DOMAIN <<e>> = {1} /\ <<e>>[1] = e /\ DOMAIN cases = {1} /\ cases[1] = case
    BY <2>2
  <2>4. Exact(l, DOMAIN cases, 0)
    BY <2>1, <2>2, <2>3 DEF Exact
  <2> QED BY <2>2, <2>4 DEF ListingBut
<1>4. DOMAIN cases \subseteq CaseIds
  BY ListsInit, RoomIsLeft
<1>5. AllTrue
  BY <1>2, <1>3, <1>4 DEF AllTrue, SheetsBut
<1>6. \A w \in Workers : NotRaised(threads[w]) /\ Stage(job[w], threads[w])
  BY <1>2 DEF NotRaised, Stage, StageOfList, StageOfCreate, StageOfRetrieve, StageOfUpdate
<1> QED BY <1>2, <1>5, <1>6 DEF CachesInv, SheetsExist, Alone

LEMMA CachesStay ==
  ASSUME CachesInv, UNCHANGED vars
  PROVE  CachesInv'
<1>1. UNCHANGED <<rqm, caches>> /\ job' = job /\ threads' = threads
      /\ faults' = faults /\ overlap' = overlap
  BY DEF vars, history
<1>2. SheetsExist'
  BY <1>1, SameCaches DEF CachesInv
<1>3. ASSUME Quiet'
      PROVE  /\ Alone' /\ (\A w \in Workers : NotRaised(threads[w]))'
             /\ AllIdle' => AllTrue'
             /\ (\A w \in Workers : Stage(job[w], threads[w]))'
  <2>1. Quiet
    BY <1>1, <1>3 DEF Quiet
  <2>2. Alone' /\ (\A w \in Workers : NotRaised(threads[w]))'
    BY <1>1, <2>1 DEF CachesInv, Alone, NotRaised
  <2>3. AllIdle' => AllTrue'
    BY <1>1, <2>1, SameCaches DEF CachesInv, AllIdle
  <2>4. ASSUME NEW w \in Workers PROVE Stage(job[w], threads[w])'
    <3>1. PICK j, ts : j = job[w] /\ ts = threads[w]
      OBVIOUS
    <3>2. Stage(j, ts)'
      BY <1>1, <2>1, <3>1, SameStage DEF CachesInv
    <3> QED BY <1>1, <3>1, <3>2
  <2> QED BY <2>2, <2>3, <2>4
<1> QED BY <1>2, <1>3 DEF CachesInv

LEMMA CachesNext ==
  ListsInv /\ ListsInv' /\ ScriptInv /\ CachesInv /\ [Next]_vars => CachesInv'
<1> SUFFICES ASSUME ListsInv, ListsInv', ScriptInv, CachesInv, [Next]_vars PROVE CachesInv'
  OBVIOUS
<1>1. CASE Expire \/ UNCHANGED vars
  BY <1>1, ExpireCaches, CachesStay
<1>2. ASSUME NEW w \in Workers, RequestStep(w) PROVE CachesInv'
  <2>1. CASE List(w) \/ Create(w) \/ Retrieve(w) \/ Update(w)
    BY <2>1, BeginsCaches
  <2>2. CASE FetchPage(w) \/ FetchFails(w) \/ StoreListing(w)
    BY <2>2, ListingCaches
  <2>3. CASE Collect(w) \/ StoreAppended(w)
    BY <2>3, CollectCaches, AppendCaches
  <2>4. CASE GetCase(w) \/ GetScript(w) \/ StoreSheet(w)
    BY <2>4, GetCaseCaches, GetScriptCaches, SheetCaches
  <2>5. CASE PutCase(w) \/ PutScript(w) \/ PutLost(w)
    BY <2>5, PutCaseCaches, PutScriptCaches, PutLostCaches
  <2>6. CASE StoreUpdate(w) \/ ReadListing(w) \/ StoreRenamed(w)
    BY <2>6, RestoreCaches, RereadCaches, RenameCaches
  <2> QED BY <1>2, <2>1, <2>2, <2>3, <2>4, <2>5, <2>6 DEF RequestStep
<1>3. ASSUME NEW w \in Workers, NEW i \in 1 .. MaxItems, ThreadStep(w, i) PROVE CachesInv'
  BY <1>3, CallsCaches, PostScriptCaches, PostCaseCaches, PostLostCaches DEF ThreadStep
<1> QED BY <1>1, <1>2, <1>3 DEF Next

\* What AllTrue says, in the words of the property.
LEMMA AllTrueIsTrue ==
  ASSUME ListsInv, AllTrue
  PROVE  SheetsTrue /\ ListingTrue
<1>1. 0 \notin DOMAIN cases /\ Len(cases) \in Nat /\ DOMAIN cases = 1 .. Len(cases)
  BY Sequences DEF ListsInv
<1>2. SheetsTrue
  BY <1>1 DEF AllTrue, SheetsBut, SheetsTrue, TrueSheet
<1>3. ASSUME listing # None
      PROVE  /\ ToSet(listing.entries) = {[id |-> c, name |-> cases[c].title] : c \in DOMAIN cases}
             /\ Len(listing.entries) = Len(cases)
  <2> DEFINE es == listing.entries
             n == Len(es)
             m == Len(cases)
  <2>1. listing \in Listing /\ Exact(listing, DOMAIN cases, 0)
    BY <1>3 DEF ListsInv, TypeOK, AllTrue, ListingBut
  <2>2. n \in Nat /\ DOMAIN es = 1 .. n /\ \A k \in DOMAIN es : es[k] \in Entry
    BY <2>1, ListingTypes
  <2>3. \A k \in 1 .. n : es[k].id \in 1 .. m /\ es[k].name = cases[es[k].id].title
    BY <1>1, <2>1, <2>2 DEF Exact
  <2>4. \A k, j \in 1 .. n : es[k].id = es[j].id => k = j
    BY <2>1, <2>2 DEF Exact
  <2>5. \A c \in 1 .. m : \E k \in 1 .. n : es[k].id = c
    BY <1>1, <2>1, <2>2 DEF Exact
  <2>6. \A k \in 1 .. n : es[k] = [id |-> es[k].id, name |-> es[k].name]
    BY <2>2 DEF Entry
  <2> HIDE DEF es, n, m
  <2>7. {es[k] : k \in 1 .. n} = {[id |-> c, name |-> cases[c].title] : c \in 1 .. m}
    <3>1. ASSUME NEW k \in 1 .. n
          PROVE  es[k] \in {[id |-> c, name |-> cases[c].title] : c \in 1 .. m}
      BY <2>3, <2>6
    <3>2. ASSUME NEW c \in 1 .. m
          PROVE  [id |-> c, name |-> cases[c].title] \in {es[k] : k \in 1 .. n}
      <4>1. PICK k \in 1 .. n : es[k].id = c
        BY <2>5
      <4>2. es[k] = [id |-> c, name |-> cases[c].title]
        BY <2>3, <2>6, <4>1
      <4> QED BY <4>2
    <3> QED BY <3>1, <3>2
  <2>8. n = m
    <3> DEFINE f == [k \in 1 .. n |-> es[k].id]
    <3>1. m \in Nat
      BY <1>1 DEF m
    <3>2. f \in Bijection(1 .. n, 1 .. m)
      BY <2>3, <2>4, <2>5 DEF Bijection, Injection, IsInjective, Surjection
    <3>3. ExistsBijection(1 .. n, 1 .. m)
      BY <3>2 DEF ExistsBijection
    <3>4. /\ IsFiniteSet(1 .. n) /\ Cardinality(1 .. n) = n
          /\ Cardinality(1 .. m) = m
      BY <2>2, <3>1, FS_Interval
    <3> QED BY <3>3, <3>4, FS_Bijection
  <2>9. ToSet(es) = {es[k] : k \in 1 .. n}
    BY <2>2 DEF ToSet
  <2> QED BY <1>1, <2>7, <2>8, <2>9 DEF es, n, m
<1> QED BY <1>2, <1>3 DEF ListingTrue

\* While no call to RQM has failed and no two requests overlapped, the caches
\* agree with RQM between requests: for any number of workers, any page size,
\* and bulk creations of any length.
THEOREM CachesAreTrue == Spec => []CachesTrue
<1>1. ListsInv /\ CachesInv => CachesTrue
  BY AllTrueIsTrue DEF CachesInv, CachesTrue, Quiet
<1> QED BY <1>1, ScriptInit, ScriptNext, ListsInit, ListsNext, CachesInit, CachesNext, PTL
       DEF Spec
====
