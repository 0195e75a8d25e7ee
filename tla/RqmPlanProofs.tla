---- MODULE RqmPlanProofs ----
(***************************************************************************)
(* What config, createTestsuite and the link methods of CRQMClient keep,   *)
(* for every number of clients, names, calls and faults.                   *)
(*                                                                         *)
(* None of the properties is inductive: they hold because of what a client *)
(* knows while it is in a call.  So the invariant follows a call of config *)
(* from step to step: what it has chosen so far, that its dict names only  *)
(* records there are, and that at the POST the dict has every record that  *)
(* was there before the call, made by itself, or by nobody who is not in   *)
(* its way.                                                                *)
(***************************************************************************)
EXTENDS RqmPlan, SequenceTheorems, FiniteSetTheorems, TLAPS

Named == [id: Nat, name: Names]
CallShape ==
  [at: {"idle", "plan", "list", "make", "teams", "get", "put"},
   op: {"none", "config", "suites", "suite", "link"},
   kind: Kinds, want: [Records -> Names \cup {None, ""}],
   name: Names \cup {None, ""}, doc: Documents, add: SUBSET Links,
   read: SUBSET Links]

Shapes ==
  /\ records \in [Kinds -> Seq(Record)]
  /\ known \in [Clients -> [Kinds -> SUBSET Named]]
  /\ chosen \in [Clients -> [Records -> Nat \cup {None}]]
  /\ call \in [Clients -> CallShape]
  /\ asked \in [Clients -> [Records -> Names \cup {None, ""}]]
  /\ links \in [Documents -> SUBSET Links]
  /\ reported \in [Documents -> SUBSET Links]

\* What is chosen for the kind k is a record called n, if there is to be one.
Right(c, k, n) ==
  n # None => chosen[c][k] \in DOMAIN records[k] /\ records[k][chosen[c][k]].name = n

\* The parts of a call fit together.
CallFits(c) ==
  /\ call[c].at = "idle" => call[c].op = "none"
  /\ call[c].at \in {"plan", "teams"} => call[c].op = "config"
  /\ call[c].at = "list" => call[c].op \in {"config", "suites"}
  /\ call[c].at = "make" => call[c].op \in {"config", "suite"} /\ call[c].name \in Names
  /\ call[c].op # "config" => call[c].kind # "buildrecord" \/ call[c].at # "make"
  /\ call[c].op # "config" => call[c].kind # "configuration" \/ call[c].at # "make"
  /\ call[c].op = "config" /\ call[c].at \in {"list", "make"} =>
       /\ call[c].kind \in Records /\ call[c].name # None
       /\ call[c].name = call[c].want[call[c].kind]

\* A client's dicts name records there are.
KnownTrue(c) ==
  \A k \in Kinds : \A e \in known[c][k] :
    e.id \in DOMAIN records[k] /\ records[k][e.id].name = e.name

Makes(c) == call[c].at = "make" /\ call[c].op = "config"
Sees(c, i) == \E e \in known[c][call[c].kind] : e.name = records[call[c].kind][i].name

\* At the POST the dict has what was there from the start and what the client
\* made itself; and everything, if nobody is in its way.
SeesEnough(c) ==
  Makes(c) => \A i \in DOMAIN records[call[c].kind] :
    records[call[c].kind][i].by \in {None, c} \/ c \notin troubled => Sees(c, i)

\* What config has done so far.
SoFar(c) ==
  call[c].op = "config" =>
    /\ asked[c] = NoWant
    /\ call[c].at \in {"list", "make"} /\ call[c].kind = "configuration" =>
         Right(c, "buildrecord", call[c].want["buildrecord"])
    /\ call[c].at = "teams" => \A k \in Records : Right(c, k, call[c].want[k])

AskedRight(c) == \A k \in Records : Right(c, k, asked[c][k])

ClientInv(c) ==
  CallFits(c) /\ KnownTrue(c) /\ SeesEnough(c) /\ SoFar(c) /\ AskedRight(c)

PlanInv ==
  /\ Shapes /\ \A c \in Clients : ClientInv(c)
  /\ RecordsOnce /\ FailsOnlyTroubled /\ LinksKept

----
(* Records and calls. *)

\* What a POST leaves: a record at the end of its kind, the others as they were.
Added(c, k) ==
  /\ records' \in [Kinds -> Seq(Record)]
  /\ \A j \in Kinds : j # k => records'[j] = records[j]
  /\ Len(records[k]) \in Nat
  /\ DOMAIN records[k] = 1 .. Len(records[k])
  /\ DOMAIN records'[k] = 1 .. Len(records[k]) + 1
  /\ \A i \in 1 .. Len(records[k]) : records'[k][i] = records[k][i]
  /\ records'[k][Len(records[k]) + 1] = [name |-> call[c].name, by |-> c]

\* A POST adds a record at the end of its kind.
LEMMA RecordAdded ==
  ASSUME Shapes, NEW c \in Clients, CallFits(c), call[c].at = "make", AddRecord(c)
  PROVE  \E k \in Kinds : k = call[c].kind /\ Added(c, k)
<1>0. PICK k : k = call[c].kind
  OBVIOUS
<1> DEFINE r == [name |-> call[c].name, by |-> c]
<1>1. call[c] \in CallShape
  BY DEF Shapes
<1>2. call[c].name \in Names
  BY DEF CallFits
<1>3. k \in Kinds /\ r \in Record
  BY <1>0, <1>1, <1>2 DEF CallShape, Record
<1>4. records[k] \in Seq(Record) /\ records \in [Kinds -> Seq(Record)]
  BY <1>3 DEF Shapes
<1>5. records' = [records EXCEPT ![k] = Append(@, r)]
  BY <1>0 DEF AddRecord
<1> HIDE DEF r
<1>6. /\ Append(records[k], r) \in Seq(Record)
      /\ Len(records[k]) \in Nat /\ DOMAIN records[k] = 1 .. Len(records[k])
      /\ Len(Append(records[k], r)) = Len(records[k]) + 1
      /\ \A i \in 1 .. Len(records[k]) : Append(records[k], r)[i] = records[k][i]
      /\ Append(records[k], r)[Len(records[k]) + 1] = r
  BY <1>3, <1>4, AppendProperties, LenProperties
<1>7. DOMAIN Append(records[k], r) = 1 .. Len(records[k]) + 1
  BY <1>6, LenProperties
<1>8. /\ records'[k] = Append(records[k], r) /\ records' \in [Kinds -> Seq(Record)]
      /\ \A j \in Kinds : j # k => records'[j] = records[j]
  BY <1>3, <1>4, <1>5, <1>6
<1>9. records'[k][Len(records[k]) + 1] = r
      /\ \A i \in 1 .. Len(records[k]) : records'[k][i] = records[k][i]
  BY <1>6, <1>8
<1>10. DOMAIN records'[k] = 1 .. Len(records[k]) + 1
  BY <1>7, <1>8
<1>11. records'[k][Len(records[k]) + 1] = [name |-> call[c].name, by |-> c]
  BY <1>9 DEF r
<1>12. Len(records[k]) \in Nat /\ DOMAIN records[k] = 1 .. Len(records[k])
  BY <1>6
<1> QED BY <1>0, <1>3, <1>8, <1>9, <1>10, <1>11, <1>12 DEF Added

\* A record that is there stays where it is, with its name and its maker.
LEMMA RecordsStay ==
  ASSUME Shapes, NEW c \in Clients, CallFits(c), call[c].at = "make", AddRecord(c),
         NEW k \in Kinds, NEW i \in DOMAIN records[k]
  PROVE  i \in DOMAIN records'[k] /\ records'[k][i] = records[k][i]
<1>1. PICK j \in Kinds : Added(c, j)
  BY RecordAdded
<1>2. CASE k = j
  BY <1>1, <1>2 DEF Added
<1>3. CASE k # j
  BY <1>1, <1>3 DEF Added
<1> QED BY <1>2, <1>3

\* A client that is in no call has only its dicts and what it asked.
LEMMA Idles ==
  ASSUME NEW c, call'[c] = Idle, KnownTrue(c)', AskedRight(c)'
  PROVE  ClientInv(c)'
BY DEF ClientInv, CallFits, SeesEnough, Makes, SoFar, Idle

\* A client nothing has changed for.
LEMMA Unmoved ==
  ASSUME NEW c \in Clients, ClientInv(c), UNCHANGED records,
         known'[c] = known[c], chosen'[c] = chosen[c], call'[c] = call[c], asked'[c] = asked[c], c \in troubled => c \in troubled'
  PROVE  ClientInv(c)'
BY DEF ClientInv, CallFits, KnownTrue, SeesEnough, Makes, Sees, SoFar, AskedRight, Right

\* What is chosen stays right while records are added.
LEMMA RightStays ==
  ASSUME Shapes, NEW c \in Clients, CallFits(c), call[c].at = "make", AddRecord(c),
         NEW d, NEW k \in Kinds, NEW n, Right(d, k, n), chosen'[d] = chosen[d]
  PROVE  Right(d, k, n)'
BY RecordsStay DEF Right

\* A client that looks on while another adds a record.
LEMMA LooksOn ==
  ASSUME Shapes, NEW c \in Clients, CallFits(c), call[c].at = "make", AddRecord(c),
         NEW d \in Clients, d # c, ClientInv(d), call'[d] = call[d],
         known'[d] = known[d], chosen'[d] = chosen[d], asked'[d] = asked[d],
         troubled \cup Rivals(c) \subseteq troubled'
  PROVE  ClientInv(d)'
<1>1. PICK k \in Kinds : k = call[c].kind /\ Added(c, k)
  BY RecordAdded
<1>2. CallFits(d)'
  BY DEF ClientInv, CallFits
<1>3. KnownTrue(d)'
  BY RecordsStay DEF ClientInv, KnownTrue
<1>4. \A j \in Records : \A n : Right(d, j, n) => Right(d, j, n)'
  BY RightStays DEF Kinds
<1>5. AskedRight(d)'
  <2> SUFFICES ASSUME NEW j \in Records PROVE Right(d, j, asked[d][j])'
    BY DEF AskedRight
  <2>1. PICK n : n = asked[d][j]
    OBVIOUS
  <2>2. Right(d, j, n)'
    BY <1>4, <2>1 DEF ClientInv, AskedRight
  <2> QED BY <2>1, <2>2 DEF Right
<1>6. SoFar(d)'
  <2> SUFFICES ASSUME call[d].op = "config"
               PROVE  SoFar(d)'
    BY DEF SoFar
  <2>1. \A j \in Records : Right(d, j, call[d].want[j]) => Right(d, j, call[d].want[j])'
    <3> SUFFICES ASSUME NEW j \in Records, Right(d, j, call[d].want[j])
                 PROVE  Right(d, j, call[d].want[j])'
      OBVIOUS
    <3>1. PICK n : n = call[d].want[j]
      OBVIOUS
    <3>2. Right(d, j, n)'
      BY <1>4, <3>1
    <3> QED BY <3>1, <3>2 DEF Right
  <2> QED BY <2>1 DEF ClientInv, SoFar, Records
<1>7. SeesEnough(d)'
  <2> SUFFICES ASSUME Makes(d)', NEW i \in DOMAIN records'[call[d].kind],
                      records'[call[d].kind][i].by \in {None, d} \/ d \notin troubled'
               PROVE  Sees(d, i)'
    BY DEF SeesEnough
  <2>1. Makes(d) /\ d \in Rivals(c)
    BY DEF Makes, Rivals
  <2>2. records'[call[d].kind][i].by \in {None, d}
    BY <2>1
  <2>3. PICK j \in Kinds : j = call[d].kind
    BY DEF Shapes, CallShape
  <2>4. i \in DOMAIN records[j] /\ records'[j][i] = records[j][i]
    <3>1. CASE j # k
      BY <1>1, <2>3, <3>1 DEF Added
    <3>2. CASE j = k
      <4>1. i # Len(records[k]) + 1
        <5>1. records'[k][Len(records[k]) + 1].by = c
          BY <1>1 DEF Added
        <5>2. records'[k][i].by \in {None, d} /\ c \notin {None, d}
          BY <2>2, <2>3, <3>2, InputsAssumption
        <5> QED BY <5>1, <5>2
      <4>2. i \in 1 .. Len(records[k])
        BY <1>1, <2>3, <3>2, <4>1 DEF Added
      <4> QED BY <1>1, <3>2, <4>2 DEF Added
    <3> QED BY <3>1, <3>2
  <2>5. Sees(d, i)
    BY <2>1, <2>2, <2>3, <2>4 DEF ClientInv, SeesEnough
  <2> QED BY <2>3, <2>4, <2>5 DEF Sees
<1> QED BY <1>2, <1>3, <1>5, <1>6, <1>7 DEF ClientInv

\* A step of one client's call.
LEMMA CallMoves ==
  ASSUME Shapes, NEW c \in Clients, NEW x \in CallShape, call' = [call EXCEPT ![c] = x]
  PROVE  /\ call' \in [Clients -> CallShape] /\ call'[c] = x
         /\ \A d \in Clients : d # c => call'[d] = call[d]
BY DEF Shapes

LEMMA IdleShape == Idle \in CallShape
BY DEF Idle, CallShape, Kinds, Records, NoWant, Documents, Plan

\* What config wanted of one kind, and has now.
RightNow(c, k) ==
  call[c].want[k] # None =>
    chosen'[c][k] \in DOMAIN records'[k] /\ records'[k][chosen'[c][k]].name = call[c].want[k]

\* config goes on, with everything it is done with chosen right.
LEMMA GoesOn ==
  ASSUME Shapes, NEW c \in Clients, call[c].op = "config", asked'[c] = NoWant,
         NEW kinds \in {Records, {"configuration"}, {}}, GoOn(c, kinds),
         KnownTrue(c)', \A k \in Records \ kinds : RightNow(c, k)
  PROVE  /\ ClientInv(c)' /\ call' \in [Clients -> CallShape]
         /\ \A d \in Clients : d # c => call'[d] = call[d]
<1> DEFINE wanted == {k \in kinds : call[c].want[k] # None}
           k == IF "buildrecord" \in wanted THEN "buildrecord" ELSE "configuration"
           x == IF wanted = {} THEN [call[c] EXCEPT !.at = "teams"]
                ELSE [call[c] EXCEPT !.at = "list", !.kind = k, !.name = call[c].want[k]]
<1>1. call' = [call EXCEPT ![c] = x]
  BY DEF GoOn
<1>2. call[c] \in CallShape
  BY DEF Shapes
<1>3. k \in Records /\ k \in Kinds /\ call[c].want[k] \in Names \cup {None, ""}
  BY <1>2 DEF CallShape, Records, Kinds
<1>4. x \in CallShape
  BY <1>2, <1>3 DEF CallShape
<1>5. /\ call' \in [Clients -> CallShape] /\ call'[c] = x
      /\ \A d \in Clients : d # c => call'[d] = call[d]
  BY <1>1, <1>4, CallMoves
<1>6. x.op = "config" /\ x.want = call[c].want
      /\ (wanted = {} => x.at = "teams")
      /\ (wanted # {} => x.at = "list" /\ x.kind = k /\ x.name = call[c].want[k]
                         /\ call[c].want[k] # None)
  BY <1>2 DEF CallShape, Records
<1>7. AskedRight(c)'
  BY DEF AskedRight, Right, NoWant
<1>8. SeesEnough(c)' /\ CallFits(c)'
  BY <1>3, <1>5, <1>6 DEF SeesEnough, Makes, CallFits
<1>9. SoFar(c)'
  <2>1. ASSUME NEW j \in Records, j \notin wanted
        PROVE  call[c].want[j] # None => chosen'[c][j] \in DOMAIN records'[j]
                 /\ records'[j][chosen'[c][j]].name = call[c].want[j]
    BY <2>1 DEF RightNow
  <2>2. CASE wanted = {}
    BY <1>5, <1>6, <2>1, <2>2 DEF SoFar, Right
  <2>3. CASE wanted # {}
    <3>1. x.at = "list" /\ (x.kind = "configuration" => "buildrecord" \notin wanted)
      BY <1>6, <2>3
    <3> HIDE DEF wanted
    <3> QED BY <1>5, <1>6, <2>1, <3>1 DEF SoFar, Right, Records
  <2> QED BY <2>2, <2>3
<1> QED BY <1>5, <1>7, <1>8, <1>9 DEF ClientInv

----
(* The steps. *)

\* A call begins.
LEMMA BeginKeeps ==
  ASSUME PlanInv, NEW c \in Clients, NEW r \in CallShape, Begin(c, r),
         \/ r.op = "config" /\ r.at = "plan"
         \/ r.op = "suite" /\ r.at = "make" /\ r.kind = "testsuite" /\ r.name \in Names
         \/ r.op = "suites" /\ r.at = "list" /\ r.kind = "testsuite"
         \/ r.op = "link" /\ r.at = "get"
  PROVE  PlanInv'
<1>1. /\ call' = [call EXCEPT ![c] = r]
      /\ UNCHANGED <<records, links, known, chosen, reported, stale>>
      /\ asked' = IF r.op = "config" THEN [asked EXCEPT ![c] = NoWant] ELSE asked
      /\ troubled' = troubled \ {c} /\ failed' = failed \ {c}
  BY DEF Begin, rqm, client
<1>2. /\ call' \in [Clients -> CallShape] /\ call'[c] = r
      /\ \A d \in Clients : d # c => call'[d] = call[d]
  BY <1>1, CallMoves DEF PlanInv
<1>3. /\ asked' \in [Clients -> [Records -> Names \cup {None, ""}]]
      /\ \A d \in Clients : d # c => asked'[d] = asked[d]
      /\ asked'[c] = IF r.op = "config" THEN NoWant ELSE asked[c]
  BY <1>1 DEF PlanInv, Shapes, NoWant
<1>4. Shapes'
  BY <1>1, <1>2, <1>3 DEF PlanInv, Shapes
<1>5. ClientInv(c)'
  <2>1. KnownTrue(c)'
    BY <1>1 DEF PlanInv, ClientInv, KnownTrue
  <2>2. AskedRight(c)'
    BY <1>1, <1>3 DEF PlanInv, ClientInv, AskedRight, Right, NoWant
  <2>3. CallFits(c)' /\ SeesEnough(c)' /\ SoFar(c)'
    BY <1>2, <1>3 DEF CallFits, SeesEnough, Makes, SoFar
  <2> QED BY <2>1, <2>2, <2>3 DEF ClientInv
<1>6. \A d \in Clients : d # c => ClientInv(d)'
  BY <1>1, <1>2, <1>3, Unmoved DEF PlanInv
<1>7. RecordsOnce' /\ FailsOnlyTroubled' /\ LinksKept'
  BY <1>1 DEF PlanInv, RecordsOnce, FailsOnlyTroubled, LinksKept
<1> QED BY <1>4, <1>5, <1>6, <1>7 DEF PlanInv

\* The calls that begin are as BeginKeeps wants them.
LEMMA BeginsKeep ==
  ASSUME PlanInv, NEW c \in Clients,
         BeginConfig(c) \/ BeginSuite(c) \/ BeginSuites(c) \/ BeginLink(c)
  PROVE  PlanInv'
<1>1. CASE BeginConfig(c)
  <2>1. PICK want \in Wants :
          Begin(c, [Idle EXCEPT !.op = "config", !.at = "plan", !.want = want])
    BY <1>1 DEF BeginConfig
  <2> DEFINE r == [Idle EXCEPT !.op = "config", !.at = "plan", !.want = want]
  <2>2. r \in CallShape /\ r.op = "config" /\ r.at = "plan"
    BY InputsAssumption, IdleShape DEF CallShape, Idle
  <2> HIDE DEF r
  <2> QED BY <2>1, <2>2, BeginKeeps DEF r
<1>2. CASE BeginSuite(c)
  <2>1. PICK name \in Names :
          Begin(c, [Idle EXCEPT !.op = "suite", !.at = "make", !.kind = "testsuite",
                                !.name = name])
    BY <1>2 DEF BeginSuite
  <2> DEFINE r == [Idle EXCEPT !.op = "suite", !.at = "make", !.kind = "testsuite",
                               !.name = name]
  <2>2. r \in CallShape /\ r.op = "suite" /\ r.at = "make" /\ r.kind = "testsuite"
        /\ r.name \in Names
    BY IdleShape DEF CallShape, Idle, Kinds
  <2> HIDE DEF r
  <2> QED BY <2>1, <2>2, BeginKeeps DEF r
<1>3. CASE BeginSuites(c)
  <2> DEFINE r == [Idle EXCEPT !.op = "suites", !.at = "list", !.kind = "testsuite"]
  <2>1. Begin(c, r)
    BY <1>3 DEF BeginSuites
  <2>2. r \in CallShape /\ r.op = "suites" /\ r.at = "list" /\ r.kind = "testsuite"
    BY IdleShape DEF CallShape, Idle, Kinds
  <2> HIDE DEF r
  <2> QED BY <2>1, <2>2, BeginKeeps
<1>4. CASE BeginLink(c)
  <2>1. PICK doc \in Documents, l \in Links :
          Begin(c, [Idle EXCEPT !.op = "link", !.at = "get", !.doc = doc, !.add = {l}])
    BY <1>4 DEF BeginLink
  <2> DEFINE r == [Idle EXCEPT !.op = "link", !.at = "get", !.doc = doc, !.add = {l}]
  <2>2. r \in CallShape /\ r.op = "link" /\ r.at = "get"
    BY IdleShape DEF CallShape, Idle
  <2> HIDE DEF r
  <2> QED BY <2>1, <2>2, BeginKeeps DEF r
<1> QED BY <1>1, <1>2, <1>3, <1>4

\* A call ends without having changed anything but itself.
LEMMA EndKeeps ==
  ASSUME PlanInv, NEW c \in Clients, End(c),
         failed' \subseteq troubled', troubled \subseteq troubled',
         UNCHANGED <<records, links, known, chosen, asked, reported, stale>>
  PROVE  PlanInv'
<1>1. /\ call' \in [Clients -> CallShape] /\ call'[c] = Idle
      /\ \A d \in Clients : d # c => call'[d] = call[d]
  BY CallMoves, IdleShape DEF PlanInv, End
<1>2. Shapes'
  BY <1>1 DEF PlanInv, Shapes
<1>3. ClientInv(c)'
  <2>1. KnownTrue(c)' /\ AskedRight(c)'
    BY DEF PlanInv, ClientInv, KnownTrue, AskedRight, Right
  <2> QED BY <1>1, <2>1, Idles
<1>4. \A d \in Clients : d # c => ClientInv(d)'
  BY <1>1, Unmoved DEF PlanInv
<1>5. RecordsOnce' /\ FailsOnlyTroubled' /\ LinksKept'
  BY DEF PlanInv, RecordsOnce, FailsOnlyTroubled, LinksKept
<1> QED BY <1>2, <1>3, <1>4, <1>5 DEF PlanInv

\* Everything that may fail without a trace on RQM.
LEMMA FailsKeep ==
  ASSUME PlanInv, NEW c \in Clients,
         \/ GetPlanFails(c) \/ ListFails(c) \/ RefuseEmpty(c) \/ CreateRefused(c)
         \/ GetTeamsFails(c) \/ GetDocumentFails(c) \/ PutRefused(c)
  PROVE  PlanInv'
<1>1. /\ Fail(c) /\ troubled' = troubled \cup {c}
      /\ UNCHANGED <<records, links, known, chosen, asked, reported, stale>>
  BY DEF GetPlanFails, ListFails, RefuseEmpty, CreateRefused, GetTeamsFails,
         GetDocumentFails, PutRefused, rqm, client
<1>2. End(c) /\ failed' \subseteq troubled'
  BY <1>1 DEF Fail, PlanInv, FailsOnlyTroubled
<1> QED BY <1>1, <1>2, EndKeeps

\* The plan is read, and config goes on with what is wanted.
LEMMA GetPlanKeeps ==
  ASSUME PlanInv, NEW c \in Clients, GetPlan(c)
  PROVE  PlanInv'
<1>1. /\ call[c].at = "plan" /\ GoOn(c, Records)
      /\ UNCHANGED <<records, links, known, chosen, asked, troubled, failed, reported, stale>>
  BY DEF GetPlan, At, rqm, client, history
<1>2. call[c].op = "config" /\ asked'[c] = NoWant /\ KnownTrue(c)'
  BY <1>1 DEF PlanInv, ClientInv, CallFits, SoFar, KnownTrue
<1>3. /\ ClientInv(c)' /\ call' \in [Clients -> CallShape]
      /\ \A d \in Clients : d # c => call'[d] = call[d]
  BY <1>1, <1>2, GoesOn DEF PlanInv
<1>4. \A d \in Clients : d # c => ClientInv(d)'
  BY <1>1, <1>3, Unmoved DEF PlanInv
<1>5. Shapes' /\ RecordsOnce' /\ FailsOnlyTroubled' /\ LinksKept'
  BY <1>1, <1>3 DEF PlanInv, Shapes, RecordsOnce, FailsOnlyTroubled, LinksKept
<1> QED BY <1>3, <1>4, <1>5 DEF PlanInv

\* The dict is filled with all there is.
LEMMA ListKeeps ==
  ASSUME PlanInv, NEW c \in Clients, List(c)
  PROVE  PlanInv'
<1>1. PICK k \in Kinds : k = call[c].kind
  BY DEF PlanInv, Shapes, CallShape
<1> DEFINE all == {[id |-> i, name |-> records[k][i].name] : i \in DOMAIN records[k]}
<1>2. /\ call[c].at = "list" /\ call[c].name # "" /\ known' = [known EXCEPT ![c][k] = all]
      /\ UNCHANGED <<records, links, chosen, asked, troubled, failed, reported, stale>>
      /\ IF call[c].op = "suites" THEN End(c) ELSE call' = [call EXCEPT ![c].at = "make"]
  BY <1>1 DEF List, At, rqm, history
<1>3. \A i \in DOMAIN records[k] : i \in Nat /\ records[k][i].name \in Names
  <2>1. records[k] \in Seq(Record)
    BY DEF PlanInv, Shapes
  <2>2. DOMAIN records[k] = 1 .. Len(records[k]) /\ Len(records[k]) \in Nat
        /\ \A i \in 1 .. Len(records[k]) : records[k][i] \in Record
    BY <2>1, LenProperties, ElementOfSeq
  <2> QED BY <2>2 DEF Record
<1>4. all \subseteq Named
  BY <1>3 DEF Named
<1>5. /\ \A e \in all : e.id \in DOMAIN records[k] /\ records[k][e.id].name = e.name
      /\ \A i \in DOMAIN records[k] : \E e \in all : e.name = records[k][i].name
  <2>1. ASSUME NEW e \in all
        PROVE  e.id \in DOMAIN records[k] /\ records[k][e.id].name = e.name
    <3>1. PICK i \in DOMAIN records[k] : e = [id |-> i, name |-> records[k][i].name]
      BY <2>1
    <3> QED BY <3>1
  <2>2. ASSUME NEW i \in DOMAIN records[k]
        PROVE  \E e \in all : e.name = records[k][i].name
    <3> WITNESS [id |-> i, name |-> records[k][i].name] \in all
    <3> QED OBVIOUS
  <2> QED BY <2>1, <2>2
<1> HIDE DEF all
<1>6. /\ known' \in [Clients -> [Kinds -> SUBSET Named]] /\ known'[c][k] = all
      /\ \A j \in Kinds : j # k => known'[c][j] = known[c][j]
      /\ \A d \in Clients : d # c => known'[d] = known[d]
  BY <1>2, <1>4 DEF PlanInv, Shapes
<1>7. KnownTrue(c)'
  <2> SUFFICES ASSUME NEW j \in Kinds, NEW e \in known'[c][j]
               PROVE  e.id \in DOMAIN records[j] /\ records[j][e.id].name = e.name
    BY <1>2 DEF KnownTrue
  <2>1. CASE j = k
    BY <1>5, <1>6, <2>1
  <2>2. CASE j # k
    BY <1>6, <2>2 DEF PlanInv, ClientInv, KnownTrue
  <2> QED BY <2>1, <2>2
<1>8. AskedRight(c)'
  BY <1>2 DEF PlanInv, ClientInv, AskedRight, Right
<1>9. /\ call' \in [Clients -> CallShape] /\ ClientInv(c)'
      /\ \A d \in Clients : d # c => call'[d] = call[d]
  <2>1. CASE call[c].op = "suites"
    BY <1>2, <1>7, <1>8, <2>1, CallMoves, IdleShape, Idles DEF End, PlanInv
  <2>2. CASE call[c].op # "suites"
    <3> DEFINE x == [call[c] EXCEPT !.at = "make"]
    <3>1. call[c] \in CallShape
      BY DEF PlanInv, Shapes
    <3>2. x \in CallShape /\ x.at = "make" /\ x.op = call[c].op /\ x.kind = k
          /\ x.name = call[c].name /\ x.want = call[c].want
      BY <1>1, <3>1 DEF CallShape
    <3> HIDE DEF x
    <3>3. call' = [call EXCEPT ![c] = x]
      BY <1>2, <2>2 DEF x
    <3>4. /\ call' \in [Clients -> CallShape] /\ call'[c] = x
          /\ \A d \in Clients : d # c => call'[d] = call[d]
      BY <3>2, <3>3, CallMoves DEF PlanInv
    <3>5. call[c].op = "config" /\ k \in Records /\ call[c].name \in Names
          /\ call[c].name = call[c].want[k]
      BY <1>1, <1>2, <2>2, <3>1 DEF PlanInv, ClientInv, CallFits, CallShape
    <3>6. CallFits(c)'
      BY <3>2, <3>4, <3>5, InputsAssumption DEF CallFits
    <3>7. SeesEnough(c)'
      <4>1. \A i \in DOMAIN records[k] : \E e \in known'[c][k] : e.name = records[k][i].name
        BY <1>5, <1>6
      <4>2. call'[c].kind = k /\ records' = records
        BY <1>2, <3>2, <3>4
      <4> QED BY <4>1, <4>2 DEF SeesEnough, Sees
    <3>8. SoFar(c)'
      <4>1. asked[c] = NoWant
            /\ (k = "configuration" => Right(c, "buildrecord", call[c].want["buildrecord"]))
        BY <1>1, <1>2, <3>5 DEF PlanInv, ClientInv, SoFar
      <4>2. /\ call'[c].at = "make" /\ call'[c].kind = k /\ call'[c].want = call[c].want
            /\ UNCHANGED <<records, chosen, asked>>
        BY <1>2, <3>2, <3>4
      <4> QED BY <4>1, <4>2 DEF SoFar, Right
    <3> QED BY <1>7, <1>8, <3>4, <3>6, <3>7, <3>8 DEF ClientInv
  <2> QED BY <2>1, <2>2
<1>10. \A d \in Clients : d # c => ClientInv(d)'
  <2> SUFFICES ASSUME NEW d \in Clients, d # c PROVE ClientInv(d)'
    OBVIOUS
  <2>1. call'[d] = call[d] /\ known'[d] = known[d] /\ ClientInv(d)
    BY <1>6, <1>9 DEF PlanInv
  <2> QED BY <1>2, <2>1, Unmoved
<1>11. Shapes' /\ RecordsOnce' /\ FailsOnlyTroubled' /\ LinksKept'
  BY <1>2, <1>6, <1>9 DEF PlanInv, Shapes, RecordsOnce, FailsOnlyTroubled, LinksKept
<1> QED BY <1>9, <1>10, <1>11 DEF PlanInv
\* The step after a record has its id keeps what the client has got right.
LEMMA HasRecord ==
  ASSUME Shapes, NEW c \in Clients, CallFits(c), SoFar(c), call[c].at = "make",
         HaveRecord(c), asked' = asked, KnownTrue(c)',
         call[c].op = "config" => RightNow(c, call[c].kind),
         call[c].op = "config" /\ call[c].kind = "configuration" => RightNow(c, "buildrecord"),
         call[c].op = "suite" => AskedRight(c)'
  PROVE  /\ ClientInv(c)' /\ call' \in [Clients -> CallShape]
         /\ \A d \in Clients : d # c => call'[d] = call[d]
<1>1. call[c].op \in {"config", "suite"}
  BY DEF CallFits
<1>2. CASE call[c].op = "suite"
  <2>1. End(c)
    BY <1>2 DEF HaveRecord, CallFits
  <2> QED BY <1>2, <2>1, CallMoves, IdleShape, Idles DEF End
<1>3. CASE call[c].op = "config"
  <2>1. asked'[c] = NoWant /\ call[c].kind \in Records
    BY <1>3 DEF SoFar, CallFits
  <2>2. CASE call[c].kind = "buildrecord"
    <3>1. GoOn(c, {"configuration"})
      BY <1>3, <2>2 DEF HaveRecord
    <3>2. \A k \in Records \ {"configuration"} : RightNow(c, k)
      BY <1>3, <2>2 DEF Records
    <3> QED BY <1>3, <2>1, <3>1, <3>2, GoesOn
  <2>3. CASE call[c].kind = "configuration"
    <3>1. GoOn(c, {})
      BY <1>3, <2>3 DEF HaveRecord
    <3>2. \A k \in Records \ {} : RightNow(c, k)
      BY <1>3, <2>3 DEF Records
    <3> QED BY <1>3, <2>1, <3>1, <3>2, GoesOn
  <2> QED BY <2>1, <2>2, <2>3 DEF Records
<1> QED BY <1>1, <1>2, <1>3

\* The id a client has chosen is the one it was given.
LEMMA Chosen ==
  ASSUME Shapes, NEW c \in Clients, CallFits(c), call[c].at = "make",
         NEW id \in Nat, Choose(c, id)
  PROVE  /\ chosen' \in [Clients -> [Records -> Nat \cup {None}]]
         /\ \A d \in Clients : d # c => chosen'[d] = chosen[d]
         /\ call[c].op # "config" => chosen'[c] = chosen[c]
         /\ call[c].op = "config" =>
              /\ chosen'[c][call[c].kind] = id
              /\ \A k \in Records : k # call[c].kind => chosen'[c][k] = chosen[c][k]
<1>1. CASE call[c].op # "config"
  BY <1>1 DEF Choose, Shapes
<1>2. CASE call[c].op = "config"
  <2>1. PICK k \in Records : k = call[c].kind
    BY <1>2 DEF CallFits
  <2>2. chosen' = [chosen EXCEPT ![c][k] = id]
    BY <1>2, <2>1 DEF Choose
  <2> QED BY <1>2, <2>1, <2>2 DEF Shapes
<1> QED BY <1>1, <1>2

\* The record is in the dict.
LEMMA UseKnownKeeps ==
  ASSUME PlanInv, NEW c \in Clients, UseKnown(c)
  PROVE  PlanInv'
<1>1. PICK k \in Kinds : k = call[c].kind
  BY DEF PlanInv, Shapes, CallShape
<1>2. PICK e \in known[c][k] : e.name = call[c].name /\ Choose(c, e.id)
  BY <1>1 DEF UseKnown, KnownAs
<1>3. /\ call[c].at = "make" /\ HaveRecord(c)
      /\ UNCHANGED <<records, links, known, asked, troubled, failed, reported, stale>>
  BY DEF UseKnown, At, rqm, history
<1>4. e.id \in Nat /\ e.id \in DOMAIN records[k] /\ records[k][e.id].name = call[c].name
  <2>1. known[c][k] \in SUBSET Named
    BY DEF PlanInv, Shapes
  <2>2. e.id \in Nat
    BY <2>1 DEF Named
  <2>3. KnownTrue(c)
    BY DEF PlanInv, ClientInv
  <2> QED BY <1>2, <2>2, <2>3 DEF KnownTrue
<1>5. /\ chosen' \in [Clients -> [Records -> Nat \cup {None}]]
      /\ \A d \in Clients : d # c => chosen'[d] = chosen[d]
      /\ call[c].op # "config" => chosen'[c] = chosen[c]
      /\ call[c].op = "config" =>
           /\ chosen'[c][k] = e.id
           /\ \A j \in Records : j # k => chosen'[c][j] = chosen[c][j]
  BY <1>1, <1>2, <1>3, <1>4, Chosen DEF PlanInv, ClientInv
<1>6. KnownTrue(c)'
  BY <1>3 DEF PlanInv, ClientInv, KnownTrue
<1>7. call[c].op = "config" => RightNow(c, call[c].kind)
  BY <1>1, <1>3, <1>4, <1>5 DEF RightNow, PlanInv, ClientInv, CallFits
<1>8. call[c].op = "config" /\ call[c].kind = "configuration" => RightNow(c, "buildrecord")
  BY <1>1, <1>3, <1>5 DEF RightNow, PlanInv, ClientInv, SoFar, Right, Records
<1>9. call[c].op = "suite" => AskedRight(c)'
  BY <1>3, <1>5 DEF PlanInv, ClientInv, AskedRight, Right
<1>10. /\ ClientInv(c)' /\ call' \in [Clients -> CallShape]
       /\ \A d \in Clients : d # c => call'[d] = call[d]
  BY <1>3, <1>6, <1>7, <1>8, <1>9, HasRecord DEF PlanInv, ClientInv
<1>11. \A d \in Clients : d # c => ClientInv(d)'
  BY <1>3, <1>5, <1>10, Unmoved DEF PlanInv
<1>12. Shapes' /\ RecordsOnce' /\ FailsOnlyTroubled' /\ LinksKept'
  BY <1>3, <1>5, <1>10
     DEF PlanInv, Shapes, RecordsOnce, FailsOnlyTroubled, LinksKept
<1> QED BY <1>10, <1>11, <1>12 DEF PlanInv

\* Who posts a name has not seen it: there is none it made, and none that was
\* there from the start.
LEMMA NeverTwice ==
  ASSUME PlanInv, NEW c \in Clients, Posts(c), AddRecord(c)
  PROVE  RecordsOnce'
<1>0. Shapes /\ CallFits(c) /\ SeesEnough(c) /\ call[c].at = "make" /\ RecordsOnce
  BY DEF PlanInv, ClientInv, Posts, At
<1>1. PICK k \in Kinds : k = call[c].kind /\ Added(c, k)
  BY <1>0, RecordAdded
<1> SUFFICES ASSUME NEW l \in Records, NEW j \in DOMAIN records'[l], records'[l][j].by # None,
                    NEW i \in 1 .. j - 1, records'[l][i].name = records'[l][j].name
             PROVE  records'[l][i].by \notin {None, records'[l][j].by}
  BY DEF RecordsOnce
<1>2. l \in Kinds
  BY DEF Kinds
<1>3. CASE l # k
  <2>1. records'[l] = records[l]
    BY <1>1, <1>2, <1>3 DEF Added
  <2> QED BY <1>0, <2>1 DEF RecordsOnce
<1>4. CASE l = k /\ j \in 1 .. Len(records[k])
  <2>1. j \in DOMAIN records[l] /\ records'[l][j] = records[l][j]
    BY <1>1, <1>4 DEF Added
  <2>2. i \in 1 .. Len(records[k]) /\ records'[l][i] = records[l][i]
    BY <1>1, <1>4 DEF Added
  <2>3. records[l][j].by # None /\ records[l][i].name = records[l][j].name
    BY <2>1, <2>2
  <2>4. \A h \in 1 .. j - 1 : records[l][h].name = records[l][j].name
                              => records[l][h].by \notin {None, records[l][j].by}
    BY <1>0, <2>1, <2>3, Zenon DEF RecordsOnce
  <2> QED BY <2>1, <2>2, <2>3, <2>4
<1>5. CASE l = k /\ j \notin 1 .. Len(records[k])
  <2>0. j \in 1 .. Len(records[k]) + 1 /\ Len(records[k]) \in Nat
    BY <1>1, <1>5 DEF Added
  <2>1. j = Len(records[k]) + 1
    BY <1>5, <2>0
  <2>2. i \in DOMAIN records[k] /\ records'[k][i] = records[k][i]
    BY <1>1, <2>1 DEF Added
  <2>3. records'[k][j].name = call[c].name /\ records'[k][j].by = c
    BY <1>1, <2>1 DEF Added
  <2>4. Makes(c)
    BY <1>0, <1>1, <1>5 DEF Makes, CallFits, Records
  <2>5. ~ Sees(c, i)
    BY <1>1, <1>5, <2>2, <2>3 DEF Sees, Posts, KnownAs
  <2>6. records[k][i].by \notin {None, c}
    BY <1>0, <1>1, <2>2, <2>4, <2>5 DEF SeesEnough
  <2> QED BY <1>5, <2>2, <2>3, <2>6
<1> QED BY <1>3, <1>4, <1>5

\* The POST succeeds.
LEMMA CreateKeeps ==
  ASSUME PlanInv, NEW c \in Clients, Create(c)
  PROVE  PlanInv'
<1>0. /\ Shapes /\ CallFits(c) /\ KnownTrue(c) /\ SoFar(c) /\ AskedRight(c)
      /\ call[c].at = "make" /\ Posts(c) /\ AddRecord(c) /\ HaveRecord(c)
      /\ troubled' = troubled \cup Rivals(c)
      /\ UNCHANGED <<links, asked, failed, reported, stale>>
  BY DEF PlanInv, ClientInv, Create, Posts, At
<1>1. PICK k \in Kinds : k = call[c].kind /\ Added(c, k)
  BY <1>0, RecordAdded
<1>2. PICK id : id = Len(records[k]) + 1
  OBVIOUS
<1>3. PICK e : e = [id |-> id, name |-> call[c].name]
  OBVIOUS
<1>4. known' = [known EXCEPT ![c][k] = @ \cup {e}] /\ Choose(c, id)
  BY <1>1, <1>2, <1>3 DEF Create
<1>5. id \in Nat /\ e \in Named /\ e.id = id /\ e.name = call[c].name
  BY <1>0, <1>1, <1>2, <1>3 DEF Added, Named, CallFits
<1>6. id \in DOMAIN records'[k] /\ records'[k][id].name = call[c].name
  BY <1>1, <1>2 DEF Added
<1>7. /\ known' \in [Clients -> [Kinds -> SUBSET Named]]
      /\ known'[c][k] = known[c][k] \cup {e}
      /\ \A j \in Kinds : j # k => known'[c][j] = known[c][j]
      /\ \A d \in Clients : d # c => known'[d] = known[d]
  BY <1>0, <1>4, <1>5 DEF Shapes
<1>8. /\ chosen' \in [Clients -> [Records -> Nat \cup {None}]]
      /\ \A d \in Clients : d # c => chosen'[d] = chosen[d]
      /\ call[c].op # "config" => chosen'[c] = chosen[c]
      /\ call[c].op = "config" =>
           /\ chosen'[c][k] = id
           /\ \A j \in Records : j # k => chosen'[c][j] = chosen[c][j]
  BY <1>0, <1>1, <1>4, <1>5, Chosen
<1>9. KnownTrue(c)'
  <2> SUFFICES ASSUME NEW j \in Kinds, NEW f \in known'[c][j]
               PROVE  f.id \in DOMAIN records'[j] /\ records'[j][f.id].name = f.name
    BY DEF KnownTrue
  <2>1. CASE j = k /\ f = e
    BY <1>5, <1>6, <2>1
  <2>2. CASE ~ (j = k /\ f = e)
    <3>1. f \in known[c][j]
      BY <1>7, <2>2
    <3>2. f.id \in DOMAIN records[j] /\ records[j][f.id].name = f.name
      BY <1>0, <3>1 DEF KnownTrue
    <3> QED BY <1>0, <3>2, RecordsStay
  <2> QED BY <2>1, <2>2
<1>10. call[c].op = "config" => RightNow(c, call[c].kind)
  BY <1>0, <1>1, <1>6, <1>8 DEF RightNow, CallFits
<1>11. call[c].op = "config" /\ call[c].kind = "configuration" => RightNow(c, "buildrecord")
  <2> SUFFICES ASSUME call[c].op = "config", call[c].kind = "configuration",
                      call[c].want["buildrecord"] # None
               PROVE  /\ chosen'[c]["buildrecord"] \in DOMAIN records'["buildrecord"]
                      /\ records'["buildrecord"][chosen'[c]["buildrecord"]].name
                           = call[c].want["buildrecord"]
    BY DEF RightNow
  <2>1. chosen'[c]["buildrecord"] = chosen[c]["buildrecord"]
    BY <1>1, <1>8 DEF Records
  <2>2. /\ chosen[c]["buildrecord"] \in DOMAIN records["buildrecord"]
        /\ records["buildrecord"][chosen[c]["buildrecord"]].name = call[c].want["buildrecord"]
    BY <1>0 DEF SoFar, Right
  <2> QED BY <1>0, <2>1, <2>2, RecordsStay DEF Kinds, Records
<1>12. call[c].op = "suite" => AskedRight(c)'
  <2> SUFFICES ASSUME call[c].op = "suite", NEW j \in Records
               PROVE  Right(c, j, asked[c][j])'
    BY DEF AskedRight
  <2>1. Right(c, j, asked[c][j]) /\ chosen'[c] = chosen[c] /\ asked' = asked
    BY <1>0, <1>8 DEF AskedRight
  <2> QED BY <1>0, <2>1, RecordsStay DEF Right, Kinds
<1>13. /\ ClientInv(c)' /\ call' \in [Clients -> CallShape]
       /\ \A d \in Clients : d # c => call'[d] = call[d]
  BY <1>0, <1>9, <1>10, <1>11, <1>12, HasRecord
<1>14. \A d \in Clients : d # c => ClientInv(d)'
  BY <1>0, <1>7, <1>8, <1>13, LooksOn DEF PlanInv
<1>15. Shapes'
  BY <1>0, <1>1, <1>7, <1>8, <1>13 DEF Shapes, Added
<1>16. RecordsOnce'
  BY <1>0, NeverTwice
<1>17. FailsOnlyTroubled' /\ LinksKept'
  BY <1>0 DEF PlanInv, FailsOnlyTroubled, LinksKept
<1> QED BY <1>13, <1>14, <1>15, <1>16, <1>17 DEF PlanInv

\* The POST of a name RQM has: only who is troubled sends one.
LEMMA CreateSeeOtherKeeps ==
  ASSUME PlanInv, NEW c \in Clients, CreateSeeOther(c)
  PROVE  PlanInv'
<1>1. /\ Posts(c) /\ OnRqm(c) /\ call[c].at = "make"
      /\ IF call[c].op = "config" THEN Fail(c) ELSE End(c) /\ UNCHANGED failed
      /\ UNCHANGED <<records, links, known, chosen, asked, troubled, reported, stale>>
  BY DEF CreateSeeOther, Posts, At, rqm, client
<1>2. call[c].op = "config" => c \in troubled
  <2> SUFFICES ASSUME call[c].op = "config", c \notin troubled PROVE FALSE
    OBVIOUS
  <2>1. PICK i \in DOMAIN records[call[c].kind] :
          records[call[c].kind][i].name = call[c].name
    BY <1>1 DEF OnRqm
  <2>2. Sees(c, i)
    BY <1>1, <2>1 DEF PlanInv, ClientInv, SeesEnough, Makes
  <2> QED BY <1>1, <2>1, <2>2 DEF Sees, Posts, KnownAs
<1>3. End(c) /\ failed' \subseteq troubled'
  BY <1>1, <1>2 DEF Fail, PlanInv, FailsOnlyTroubled
<1> QED BY <1>1, <1>3, EndKeeps

\* The POST succeeds, and the client never knows.
LEMMA CreateLostKeeps ==
  ASSUME PlanInv, NEW c \in Clients, CreateLost(c)
  PROVE  PlanInv'
<1>0. /\ Shapes /\ CallFits(c) /\ KnownTrue(c) /\ AskedRight(c)
      /\ call[c].at = "make" /\ Posts(c) /\ AddRecord(c) /\ Fail(c)
      /\ troubled' = troubled \cup {c} \cup Rivals(c)
      /\ UNCHANGED <<links, known, chosen, asked, reported, stale>>
  BY DEF PlanInv, ClientInv, CreateLost, Posts, At, client
<1>1. /\ call' \in [Clients -> CallShape] /\ call'[c] = Idle
      /\ \A d \in Clients : d # c => call'[d] = call[d]
  BY <1>0, CallMoves, IdleShape DEF Fail, End
<1>2. KnownTrue(c)'
  BY <1>0, RecordsStay DEF KnownTrue
<1>3. AskedRight(c)'
  <2> SUFFICES ASSUME NEW j \in Records PROVE Right(c, j, asked[c][j])'
    BY DEF AskedRight
  <2>1. Right(c, j, asked[c][j]) /\ chosen'[c] = chosen[c] /\ asked' = asked
    BY <1>0 DEF AskedRight
  <2> QED BY <1>0, <2>1, RecordsStay DEF Right, Kinds
<1>4. ClientInv(c)'
  BY <1>1, <1>2, <1>3, Idles
<1>5. \A d \in Clients : d # c => ClientInv(d)'
  BY <1>0, <1>1, LooksOn DEF PlanInv
<1>6. Shapes'
  <2>1. records' \in [Kinds -> Seq(Record)]
    BY <1>0, RecordAdded DEF Added
  <2> QED BY <1>0, <1>1, <2>1 DEF Shapes
<1>7. RecordsOnce'
  BY <1>0, NeverTwice
<1>8. FailsOnlyTroubled' /\ LinksKept'
  BY <1>0 DEF PlanInv, FailsOnlyTroubled, LinksKept, Fail
<1> QED BY <1>4, <1>5, <1>6, <1>7, <1>8 DEF PlanInv

\* config returns.
LEMMA GetTeamsKeeps ==
  ASSUME PlanInv, NEW c \in Clients, GetTeams(c)
  PROVE  PlanInv'
<1>0. /\ call[c].at = "teams" /\ End(c) /\ asked' = [asked EXCEPT ![c] = call[c].want]
      /\ UNCHANGED <<records, links, known, chosen, troubled, failed, reported, stale>>
  BY DEF GetTeams, At, rqm, client
<1>1. /\ call' \in [Clients -> CallShape] /\ call'[c] = Idle
      /\ \A d \in Clients : d # c => call'[d] = call[d]
  BY <1>0, CallMoves, IdleShape DEF PlanInv, End
<1>2. call[c] \in CallShape
  BY DEF PlanInv, Shapes
<1>3. call[c].want \in [Records -> Names \cup {None, ""}]
  BY <1>2 DEF CallShape
<1>4. /\ asked' \in [Clients -> [Records -> Names \cup {None, ""}]]
      /\ asked'[c] = call[c].want /\ \A d \in Clients : d # c => asked'[d] = asked[d]
  BY <1>0, <1>3 DEF PlanInv, Shapes
<1>5. KnownTrue(c)'
  BY <1>0 DEF PlanInv, ClientInv, KnownTrue
<1>6. \A k \in Records : Right(c, k, call[c].want[k])
  BY <1>0 DEF PlanInv, ClientInv, CallFits, SoFar
<1>7. AskedRight(c)'
  BY <1>0, <1>4, <1>6 DEF AskedRight, Right
<1>8. ClientInv(c)'
  BY <1>1, <1>5, <1>7, Idles
<1>9. \A d \in Clients : d # c => ClientInv(d)'
  BY <1>0, <1>1, <1>4, Unmoved DEF PlanInv
<1>10. Shapes' /\ RecordsOnce' /\ FailsOnlyTroubled' /\ LinksKept'
  BY <1>0, <1>1, <1>4 DEF PlanInv, Shapes, RecordsOnce, FailsOnlyTroubled, LinksKept
<1> QED BY <1>8, <1>9, <1>10 DEF PlanInv

\* A document is read.
LEMMA GetDocumentKeeps ==
  ASSUME PlanInv, NEW c \in Clients, GetDocument(c)
  PROVE  PlanInv'
<1> DEFINE x == [call[c] EXCEPT !.read = links[call[c].doc], !.at = "put"]
<1>0. /\ call' = [call EXCEPT ![c] = x]
      /\ UNCHANGED <<records, links, known, chosen, asked, troubled, failed, reported, stale>>
  BY DEF GetDocument, rqm, client, history, PlanInv, Shapes
<1>1. call[c] \in CallShape
  BY DEF PlanInv, Shapes
<1>2. links[call[c].doc] \in SUBSET Links
  BY <1>1 DEF PlanInv, Shapes, CallShape
<1>3. x \in CallShape /\ x.at = "put" /\ x.op = call[c].op
  BY <1>1, <1>2 DEF CallShape
<1> HIDE DEF x
<1>4. /\ call' \in [Clients -> CallShape] /\ call'[c] = x
      /\ \A d \in Clients : d # c => call'[d] = call[d]
  BY <1>0, <1>3, CallMoves DEF PlanInv
<1>5. KnownTrue(c)' /\ AskedRight(c)'
  BY <1>0 DEF PlanInv, ClientInv, KnownTrue, AskedRight, Right
<1>6. CallFits(c)' /\ SeesEnough(c)' /\ SoFar(c)'
  BY <1>0, <1>3, <1>4 DEF PlanInv, ClientInv, CallFits, SeesEnough, Makes, SoFar
<1>7. \A d \in Clients : d # c => ClientInv(d)'
  BY <1>0, <1>4, Unmoved DEF PlanInv
<1>8. Shapes' /\ RecordsOnce' /\ FailsOnlyTroubled' /\ LinksKept'
  BY <1>0, <1>4 DEF PlanInv, Shapes, RecordsOnce, FailsOnlyTroubled, LinksKept
<1> QED BY <1>5, <1>6, <1>7, <1>8 DEF PlanInv, ClientInv

\* A document is written back, and the client may learn of it.
LEMMA WriteKeeps ==
  ASSUME PlanInv, NEW c \in Clients, call[c].at = "put", WriteDocument(c), End(c),
         failed' \subseteq troubled', troubled \subseteq troubled',
         \/ reported' = [reported EXCEPT ![call[c].doc] = @ \cup call[c].add]
         \/ reported' = reported,
         UNCHANGED <<records, known, chosen, asked>>
  PROVE  PlanInv'
<1>1. /\ call' \in [Clients -> CallShape] /\ call'[c] = Idle
      /\ \A d \in Clients : d # c => call'[d] = call[d]
  BY CallMoves, IdleShape DEF PlanInv, End
<1>2. call[c] \in CallShape
  BY DEF PlanInv, Shapes
<1>3. PICK w \in Documents, a \in SUBSET Links, r \in SUBSET Links :
        w = call[c].doc /\ a = call[c].add /\ r = call[c].read
  BY <1>2 DEF CallShape
<1>4. /\ links' = [links EXCEPT ![w] = r \cup a]
      /\ stale' = IF links[w] # r THEN stale \cup {w} ELSE stale
  BY <1>3 DEF WriteDocument, Content
<1>5. /\ links' \in [Documents -> SUBSET Links] /\ links'[w] = r \cup a
      /\ \A d \in Documents : d # w => links'[d] = links[d]
  BY <1>3, <1>4 DEF PlanInv, Shapes
<1>6. /\ reported' \in [Documents -> SUBSET Links] /\ reported'[w] \subseteq reported[w] \cup a
      /\ \A d \in Documents : d # w => reported'[d] = reported[d]
  BY <1>3 DEF PlanInv, Shapes
<1>7. LinksKept'
  <2> SUFFICES ASSUME NEW d \in Documents, d \notin stale' PROVE reported'[d] \subseteq links'[d]
    BY DEF LinksKept
  <2>1. reported[d] \subseteq links[d]
    BY <1>4 DEF PlanInv, LinksKept
  <2>2. CASE d = w
    <3>1. links[w] = r
      BY <1>4, <2>2
    <3> QED BY <1>5, <1>6, <2>1, <2>2, <3>1
  <2>3. CASE d # w
    BY <1>5, <1>6, <2>1, <2>3
  <2> QED BY <2>2, <2>3
<1>8. ClientInv(c)'
  <2>1. KnownTrue(c)' /\ AskedRight(c)'
    BY DEF PlanInv, ClientInv, KnownTrue, AskedRight, Right
  <2> QED BY <1>1, <2>1, Idles
<1>9. \A d \in Clients : d # c => ClientInv(d)'
  BY <1>1, Unmoved DEF PlanInv
<1>10. Shapes' /\ RecordsOnce' /\ FailsOnlyTroubled'
  BY <1>1, <1>5, <1>6 DEF PlanInv, Shapes, RecordsOnce, FailsOnlyTroubled
<1> QED BY <1>7, <1>8, <1>9, <1>10 DEF PlanInv

LEMMA PutsKeep ==
  ASSUME PlanInv, NEW c \in Clients, PutDocument(c) \/ PutLost(c)
  PROVE  PlanInv'
<1>1. CASE PutDocument(c)
  <2>1. /\ call[c].at = "put" /\ WriteDocument(c) /\ End(c)
        /\ reported' = [reported EXCEPT ![call[c].doc] = @ \cup call[c].add]
        /\ UNCHANGED <<records, known, chosen, asked, troubled, failed>>
    BY <1>1 DEF PutDocument, At, client
  <2> QED BY <2>1, WriteKeeps DEF PlanInv, FailsOnlyTroubled
<1>2. CASE PutLost(c)
  <2>1. /\ call[c].at = "put" /\ WriteDocument(c) /\ End(c)
        /\ failed' = failed \cup {c} /\ troubled' = troubled \cup {c}
        /\ UNCHANGED <<records, known, chosen, asked, reported>>
    BY <1>2 DEF PutLost, Fail, At, client
  <2> QED BY <2>1, WriteKeeps DEF PlanInv, FailsOnlyTroubled
<1> QED BY <1>1, <1>2

----
(* Types.                                                                  *)
(*                                                                         *)
(* That ids stay within the bound TypeOK puts on them is a matter of       *)
(* counting: a call adds one record of a kind at most, so for each kind    *)
(* the records there are and the clients that may still add one are no     *)
(* more than the names from the start and the calls begun.                 *)

\* A call that may still add a record of kind k.
CanAdd(x, k) ==
  \/ x.at = "plan" /\ k \in Records
  \/ /\ x.at \in {"list", "make"}
     /\ x.kind = k \/ (x.kind = "buildrecord" /\ k = "configuration")

Adders(k) == {c \in Clients : CanAdd(call[c], k)}

Counted(k) ==
  /\ IsFiniteSet(Adders(k))
  /\ Len(records[k]) + Cardinality(Adders(k)) <= Len(Existing) + calls

ChosenBounded ==
  \A c \in Clients, k \in Records :
    chosen[c][k] # None => \E e \in Entry : e.id = chosen[c][k]

WantsKnown ==
  \A c \in Clients :
    call[c].want \in Wants \cup {NoWant} /\ asked[c] \in Wants \cup {NoWant}

Bounds ==
  /\ \A k \in Kinds : Counted(k)
  /\ calls \in 0..MaxCalls /\ faults \in 0..MaxFaults
  /\ ChosenBounded /\ WantsKnown
  /\ troubled \subseteq Clients /\ failed \subseteq Clients /\ stale \subseteq Documents

LEMMA ExistingNat == Len(Existing) \in Nat /\ MaxCalls \in Nat /\ MaxFaults \in Nat
<1>1. Existing \in Seq(Names)
  BY InputsAssumption
<1> QED BY <1>1, LenProperties, BoundsAssumption

\* What a step of c that begins no call leaves of it.
Follows(c, x) ==
  /\ call'[c] = x /\ \A d \in Clients : d # c => call'[d] = call[d]
  /\ x.want \in {call[c].want, NoWant}
  /\ \A k \in Kinds : CanAdd(x, k) => CanAdd(call[c], k)

\* A call that has ended adds nothing.
LEMMA EndFollows ==
  ASSUME Shapes, NEW c \in Clients, End(c)
  PROVE  Follows(c, Idle) /\ \A k : ~CanAdd(Idle, k)
<1>1. /\ call'[c] = Idle /\ \A d \in Clients : d # c => call'[d] = call[d]
  BY CallMoves, IdleShape DEF End
<1>2. Idle.want = NoWant /\ Idle.at = "idle"
  BY DEF Idle
<1> QED BY <1>1, <1>2 DEF Follows, CanAdd

\* config goes on with the kinds it is not done with.
LEMMA GoOnFollows ==
  ASSUME Shapes, NEW c \in Clients, NEW kinds \in {Records, {"configuration"}, {}},
         GoOn(c, kinds), \A k \in kinds : CanAdd(call[c], k)
  PROVE  \E x : Follows(c, x) /\ \A k \in Kinds : CanAdd(x, k) => k \in kinds
<1> DEFINE wanted == {k \in kinds : call[c].want[k] # None}
           j == IF "buildrecord" \in wanted THEN "buildrecord" ELSE "configuration"
           x == IF wanted = {} THEN [call[c] EXCEPT !.at = "teams"]
                ELSE [call[c] EXCEPT !.at = "list", !.kind = j, !.name = call[c].want[j]]
<1>1. call' = [call EXCEPT ![c] = x]
  BY DEF GoOn
<1>2. call[c] \in CallShape
  BY DEF Shapes
<1>3. j \in Records /\ j \in Kinds /\ call[c].want[j] \in Names \cup {None, ""}
  BY <1>2 DEF CallShape, Records, Kinds
<1>4. x \in CallShape
  BY <1>2, <1>3 DEF CallShape
<1>5. call'[c] = x /\ \A d \in Clients : d # c => call'[d] = call[d]
  BY <1>1, <1>4, CallMoves
<1>6. /\ x.want = call[c].want
      /\ wanted = {} => x.at = "teams"
      /\ wanted # {} => x.at = "list" /\ x.kind = j /\ j \in kinds
                        /\ (j = "buildrecord" => kinds = Records)
  BY <1>2 DEF CallShape, Records
<1>7. \A k \in Kinds : CanAdd(x, k) => k \in kinds
  <2> HIDE DEF x, j, wanted
  <2> QED BY <1>6 DEF CanAdd, Records
<1> HIDE DEF x
<1> QED BY <1>5, <1>6, <1>7 DEF Follows

\* A client that has a record makes no other of its kind in this call.
LEMMA HasFollows ==
  ASSUME Shapes, NEW c \in Clients, CallFits(c), call[c].at = "make", HaveRecord(c)
  PROVE  \E x : Follows(c, x) /\ ~CanAdd(x, call[c].kind)
<1>1. call[c].op \in {"config", "suite"} /\ (call[c].op = "config" => call[c].kind \in Records)
  BY DEF CallFits
<1>2. CASE call[c].op = "suite"
  <2>1. End(c)
    BY <1>2 DEF HaveRecord, CallFits
  <2> QED BY <2>1, EndFollows
<1>3. CASE call[c].op = "config" /\ call[c].kind = "buildrecord"
  <2>1. GoOn(c, {"configuration"})
    BY <1>3 DEF HaveRecord
  <2>2. CanAdd(call[c], "configuration")
    BY <1>3 DEF CanAdd
  <2>3. PICK x : Follows(c, x) /\ \A k \in Kinds : CanAdd(x, k) => k \in {"configuration"}
    BY <2>1, <2>2, GoOnFollows
  <2> QED BY <1>3, <2>3 DEF Kinds, Records
<1>4. CASE call[c].op = "config" /\ call[c].kind = "configuration"
  <2>1. GoOn(c, {})
    BY <1>4 DEF HaveRecord
  <2>2. PICK x : Follows(c, x) /\ \A k \in Kinds : CanAdd(x, k) => k \in {}
    BY <2>1, GoOnFollows
  <2> QED BY <1>4, <2>2 DEF Kinds, Records
<1> QED BY <1>1, <1>2, <1>3, <1>4 DEF Records

\* Who follows on and adds no record leaves room for all who may.
LEMMA QuietCounts ==
  ASSUME NEW c \in Clients, NEW x, Follows(c, x), UNCHANGED <<records, calls>>,
         NEW k \in Kinds, Counted(k), Len(records[k]) \in Nat, calls \in Nat,
         Len(Existing) \in Nat
  PROVE  Counted(k)'
<1>1. Adders(k)' \subseteq Adders(k)
  BY DEF Adders, Follows
<1>2. /\ IsFiniteSet(Adders(k)') /\ Cardinality(Adders(k)') <= Cardinality(Adders(k))
      /\ Cardinality(Adders(k)) \in Nat /\ Cardinality(Adders(k)') \in Nat
  BY <1>1, FS_Subset, FS_CardinalityType DEF Counted
<1>3. Len(records[k]) + Cardinality(Adders(k)) <= Len(Existing) + calls
  BY DEF Counted
<1> QED BY <1>2, <1>3 DEF Counted

\* Who adds a record uses the place that was kept for it.
LEMMA AddCounts ==
  ASSUME Shapes, NEW c \in Clients, CallFits(c), call[c].at = "make", AddRecord(c),
         NEW x, Follows(c, x), ~CanAdd(x, call[c].kind), calls' = calls,
         NEW k \in Kinds, Counted(k), calls \in Nat, Len(Existing) \in Nat
  PROVE  Counted(k)'
<1>1. PICK j \in Kinds : j = call[c].kind /\ Added(c, j)
  BY RecordAdded
<1>2. CASE k # j
  <2>1. Adders(k)' \subseteq Adders(k) /\ records'[k] = records[k]
    BY <1>1, <1>2 DEF Adders, Follows, Added
  <2>2. Len(records[k]) \in Nat
    BY LenProperties DEF Shapes
  <2>3. /\ IsFiniteSet(Adders(k)') /\ Cardinality(Adders(k)') <= Cardinality(Adders(k))
        /\ Cardinality(Adders(k)) \in Nat /\ Cardinality(Adders(k)') \in Nat
    BY <2>1, FS_Subset, FS_CardinalityType DEF Counted
  <2>4. Len(records[k]) + Cardinality(Adders(k)) <= Len(Existing) + calls
    BY DEF Counted
  <2> QED BY <2>1, <2>2, <2>3, <2>4 DEF Counted
<1>3. CASE k = j
  <2>1. c \in Adders(k)
    BY <1>1, <1>3 DEF Adders, CanAdd
  <2>2. Adders(k)' \subseteq Adders(k) \ {c}
    BY <1>1, <1>3 DEF Adders, Follows
  <2>3. /\ IsFiniteSet(Adders(k) \ {c})
        /\ Cardinality(Adders(k) \ {c}) = Cardinality(Adders(k)) - 1
        /\ Cardinality(Adders(k)) \in Nat
    BY <2>1, FS_RemoveElement, FS_CardinalityType DEF Counted
  <2>4. /\ IsFiniteSet(Adders(k)') /\ Cardinality(Adders(k)') <= Cardinality(Adders(k) \ {c})
        /\ Cardinality(Adders(k)') \in Nat
    BY <2>2, <2>3, FS_Subset, FS_CardinalityType
  <2>5. Len(records'[k]) = Len(records[k]) + 1 /\ Len(records[k]) \in Nat
    <3>1. records'[k] \in Seq(Record) /\ DOMAIN records'[k] = 1 .. Len(records[k]) + 1
          /\ Len(records[k]) \in Nat
      BY <1>1, <1>3 DEF Added
    <3> QED BY <3>1, LenProperties
  <2>6. Len(records[k]) + Cardinality(Adders(k)) <= Len(Existing) + calls
    BY DEF Counted
  <2> QED BY <2>3, <2>4, <2>5, <2>6 DEF Counted
<1> QED BY <1>2, <1>3

\* A call that begins brings a place with it.
LEMMA BeginCounts ==
  ASSUME Shapes, NEW c \in Clients, NEW r \in CallShape, Begin(c, r),
         NEW k \in Kinds, Counted(k), calls \in Nat, Len(Existing) \in Nat
  PROVE  Counted(k)'
<1>1. \A d \in Clients : d # c => call'[d] = call[d]
  BY CallMoves DEF Begin
<1>2. records' = records /\ calls' = calls + 1
  BY DEF Begin, rqm
<1>3. Adders(k)' \subseteq Adders(k) \cup {c}
  BY <1>1 DEF Adders
<1>4. /\ IsFiniteSet(Adders(k) \cup {c}) /\ Cardinality(Adders(k)) \in Nat
      /\ Cardinality(Adders(k) \cup {c}) <= Cardinality(Adders(k)) + 1
      /\ Cardinality(Adders(k) \cup {c}) \in Nat
  <2>1. /\ IsFiniteSet(Adders(k) \cup {c}) /\ Cardinality(Adders(k)) \in Nat
        /\ Cardinality(Adders(k) \cup {c}) \in {Cardinality(Adders(k)), Cardinality(Adders(k)) + 1}
    BY FS_AddElement, FS_CardinalityType DEF Counted
  <2> QED BY <2>1
<1>5. /\ IsFiniteSet(Adders(k)') /\ Cardinality(Adders(k)') <= Cardinality(Adders(k) \cup {c})
      /\ Cardinality(Adders(k)') \in Nat
  BY <1>3, <1>4, FS_Subset, FS_CardinalityType
<1>6. Len(records[k]) + Cardinality(Adders(k)) <= Len(Existing) + calls
      /\ Len(records[k]) \in Nat
  BY LenProperties DEF Counted, Shapes
<1> QED BY <1>2, <1>4, <1>5, <1>6 DEF Counted

\* The parts of Bounds but the counts, for a step that adds no record.
LEMMA QuietBounds ==
  ASSUME PlanInv, Bounds, NEW c \in Clients, NEW x, Follows(c, x),
         UNCHANGED <<records, calls>>, ChosenBounded',
         faults' \in 0..MaxFaults, asked' = asked \/ asked' = [asked EXCEPT ![c] = call[c].want],
         troubled' \subseteq Clients, failed' \subseteq Clients, stale' \subseteq Documents
  PROVE  Bounds'
<1>1. ASSUME NEW k \in Kinds PROVE Counted(k)'
  <2>1. records[k] \in Seq(Record)
    BY DEF PlanInv, Shapes
  <2>2. calls \in Nat /\ Counted(k)
    BY DEF Bounds
  <2> QED BY <2>1, <2>2, ExistingNat, LenProperties, QuietCounts
<1>2. WantsKnown'
  <2>1. ASSUME NEW d \in Clients PROVE call'[d].want \in Wants \cup {NoWant}
    BY DEF Bounds, WantsKnown, Follows
  <2>2. ASSUME NEW d \in Clients PROVE asked'[d] \in Wants \cup {NoWant}
    BY DEF Bounds, WantsKnown, PlanInv, Shapes
  <2> QED BY <2>1, <2>2 DEF WantsKnown
<1> QED BY <1>1, <1>2 DEF Bounds

\* A begun call is counted, and wants what it was called with.
LEMMA BeginBounds ==
  ASSUME PlanInv, Bounds, NEW c \in Clients, NEW r \in CallShape, Begin(c, r),
         r.want \in Wants \cup {NoWant}
  PROVE  Bounds'
<1>1. /\ calls < MaxCalls /\ calls' = calls + 1 /\ faults' = faults
      /\ call' = [call EXCEPT ![c] = r]
      /\ asked' = IF r.op = "config" THEN [asked EXCEPT ![c] = NoWant] ELSE asked
      /\ troubled' \subseteq troubled /\ failed' \subseteq failed
      /\ UNCHANGED <<chosen, stale>>
  BY DEF Begin, client
<1>2. ASSUME NEW k \in Kinds PROVE Counted(k)'
  BY ExistingNat, BeginCounts DEF PlanInv, Bounds
<1>3. calls' \in 0..MaxCalls
  BY <1>1, ExistingNat DEF Bounds
<1>4. ChosenBounded'
  BY <1>1 DEF Bounds, ChosenBounded
<1>5. WantsKnown'
  <2>1. \A d \in Clients : call'[d].want \in Wants \cup {NoWant}
    BY <1>1 DEF Bounds, WantsKnown, PlanInv, Shapes
  <2>2. \A d \in Clients : asked'[d] \in Wants \cup {NoWant}
    BY <1>1 DEF Bounds, WantsKnown, PlanInv, Shapes
  <2> QED BY <2>1, <2>2 DEF WantsKnown
<1> QED BY <1>1, <1>2, <1>3, <1>4, <1>5 DEF Bounds

LEMMA BeginsBound ==
  ASSUME PlanInv, Bounds, NEW c \in Clients,
         BeginConfig(c) \/ BeginSuite(c) \/ BeginSuites(c) \/ BeginLink(c)
  PROVE  Bounds'
<1>1. ASSUME NEW want \in Wants PROVE want \in [Records -> Names \cup {None, ""}]
  BY InputsAssumption
<1>2. CASE BeginConfig(c)
  <2>1. PICK want \in Wants :
          Begin(c, [Idle EXCEPT !.op = "config", !.at = "plan", !.want = want])
    BY <1>2 DEF BeginConfig
  <2> DEFINE r == [Idle EXCEPT !.op = "config", !.at = "plan", !.want = want]
  <2>2. r \in CallShape /\ r.want \in Wants
    BY <1>1, IdleShape DEF CallShape, Idle
  <2> HIDE DEF r
  <2> QED BY <2>1, <2>2, BeginBounds DEF r
<1>3. CASE BeginSuite(c)
  <2>1. PICK name \in Names :
          Begin(c, [Idle EXCEPT !.op = "suite", !.at = "make", !.kind = "testsuite",
                                !.name = name])
    BY <1>3 DEF BeginSuite
  <2> DEFINE r == [Idle EXCEPT !.op = "suite", !.at = "make", !.kind = "testsuite",
                               !.name = name]
  <2>2. r \in CallShape /\ r.want = NoWant
    BY IdleShape DEF CallShape, Idle, Kinds
  <2> HIDE DEF r
  <2> QED BY <2>1, <2>2, BeginBounds DEF r
<1>4. CASE BeginSuites(c)
  <2> DEFINE r == [Idle EXCEPT !.op = "suites", !.at = "list", !.kind = "testsuite"]
  <2>1. Begin(c, r)
    BY <1>4 DEF BeginSuites
  <2>2. r \in CallShape /\ r.want = NoWant
    BY IdleShape DEF CallShape, Idle, Kinds
  <2> HIDE DEF r
  <2> QED BY <2>1, <2>2, BeginBounds
<1>5. CASE BeginLink(c)
  <2>1. PICK doc \in Documents, l \in Links :
          Begin(c, [Idle EXCEPT !.op = "link", !.at = "get", !.doc = doc, !.add = {l}])
    BY <1>5 DEF BeginLink
  <2> DEFINE r == [Idle EXCEPT !.op = "link", !.at = "get", !.doc = doc, !.add = {l}]
  <2>2. r \in CallShape /\ r.want = NoWant
    BY IdleShape DEF CallShape, Idle
  <2> HIDE DEF r
  <2> QED BY <2>1, <2>2, BeginBounds DEF r
<1> QED BY <1>2, <1>3, <1>4, <1>5

\* The calls that end without having made a record.
LEMMA EndBounds ==
  ASSUME PlanInv, Bounds, NEW c \in Clients,
         \/ GetPlanFails(c) \/ ListFails(c) \/ RefuseEmpty(c) \/ CreateRefused(c)
         \/ GetTeams(c) \/ GetTeamsFails(c) \/ GetDocumentFails(c) \/ CreateSeeOther(c)
         \/ PutDocument(c) \/ PutRefused(c) \/ PutLost(c)
  PROVE  Bounds'
<1>1. Follows(c, Idle)
  <2>1. End(c)
    BY DEF GetPlanFails, ListFails, RefuseEmpty, CreateRefused, GetTeams, GetTeamsFails,
           GetDocumentFails, CreateSeeOther, PutDocument, PutRefused, PutLost, Fail
  <2> QED BY <2>1, EndFollows DEF PlanInv
<1>2. UNCHANGED <<records, calls, chosen>>
  BY DEF GetPlanFails, ListFails, RefuseEmpty, CreateRefused, GetTeams, GetTeamsFails,
         GetDocumentFails, CreateSeeOther, PutDocument, PutRefused, PutLost, rqm, client
<1>3. faults' \in 0..MaxFaults
  <2>1. faults' = faults \/ (faults < MaxFaults /\ faults' = faults + 1)
    BY DEF GetPlanFails, ListFails, RefuseEmpty, CreateRefused, GetTeams, GetTeamsFails,
           GetDocumentFails, CreateSeeOther, PutDocument, PutRefused, PutLost, Fault
  <2> QED BY <2>1, ExistingNat DEF Bounds
<1>4. asked' = asked \/ asked' = [asked EXCEPT ![c] = call[c].want]
  BY DEF GetPlanFails, ListFails, RefuseEmpty, CreateRefused, GetTeams, GetTeamsFails,
         GetDocumentFails, CreateSeeOther, PutDocument, PutRefused, PutLost
<1>5. troubled' \subseteq Clients /\ failed' \subseteq Clients
  BY DEF GetPlanFails, ListFails, RefuseEmpty, CreateRefused, GetTeams, GetTeamsFails,
         GetDocumentFails, CreateSeeOther, PutDocument, PutRefused, PutLost, Fail, Bounds
<1>6. stale' \subseteq Documents
  <2>1. call[c].doc \in Documents
    <3>1. call[c] \in CallShape
      BY DEF PlanInv, Shapes
    <3> QED BY <3>1 DEF CallShape
  <2>2. stale' \subseteq stale \cup {call[c].doc}
    BY DEF GetPlanFails, ListFails, RefuseEmpty, CreateRefused, GetTeams, GetTeamsFails,
           GetDocumentFails, CreateSeeOther, PutDocument, PutRefused, PutLost, WriteDocument
  <2> QED BY <2>1, <2>2 DEF Bounds
<1>7. ChosenBounded'
  BY <1>2 DEF Bounds, ChosenBounded
<1> QED BY <1>1, <1>2, <1>3, <1>4, <1>5, <1>6, <1>7, QuietBounds

\* The steps of a call that goes on, with no record made.
LEMMA GoOnBounds ==
  ASSUME PlanInv, Bounds, NEW c \in Clients, GetPlan(c) \/ List(c) \/ GetDocument(c)
  PROVE  Bounds'
<1>0. UNCHANGED <<records, calls, chosen, faults, asked, troubled, failed, stale>>
  BY DEF GetPlan, List, GetDocument, rqm, client, history
<1>1. ChosenBounded'
  BY <1>0 DEF Bounds, ChosenBounded
<1>2. call[c] \in CallShape /\ Shapes
  BY DEF PlanInv, Shapes
<1>3. PICK x : Follows(c, x)
  <2>1. CASE GetPlan(c)
    <3>1. GoOn(c, Records) /\ \A k \in Records : CanAdd(call[c], k)
      BY <2>1 DEF GetPlan, At, CanAdd
    <3> QED BY <1>2, <3>1, GoOnFollows
  <2>2. CASE List(c) /\ End(c)
    BY <1>2, <2>2, EndFollows
  <2>3. CASE List(c) /\ call' = [call EXCEPT ![c].at = "make"]
    <3> DEFINE x == [call[c] EXCEPT !.at = "make"]
    <3>1. x \in CallShape /\ x.want = call[c].want /\ x.kind = call[c].kind
          /\ x.at = "make" /\ call[c].at = "list"
      BY <1>2, <2>3 DEF CallShape, List, At
    <3>2. call' = [call EXCEPT ![c] = x]
      BY <1>2, <2>3 DEF Shapes
    <3> HIDE DEF x
    <3> QED BY <1>2, <3>1, <3>2, CallMoves DEF Follows, CanAdd
  <2>4. CASE GetDocument(c)
    <3> DEFINE x == [call[c] EXCEPT !.read = links[call[c].doc], !.at = "put"]
    <3>1. call' = [call EXCEPT ![c] = x]
      BY <1>2, <2>4 DEF GetDocument, Shapes
    <3>2. links[call[c].doc] \in SUBSET Links
      BY <1>2 DEF Shapes, CallShape
    <3>3. x \in CallShape /\ x.want = call[c].want /\ x.at = "put"
      BY <1>2, <3>2 DEF CallShape
    <3> HIDE DEF x
    <3> QED BY <1>2, <3>1, <3>3, CallMoves DEF Follows, CanAdd
  <2> QED BY <2>1, <2>2, <2>3, <2>4 DEF List
<1> QED BY <1>0, <1>1, <1>3, QuietBounds DEF Bounds

\* Ids are within the bound when the counts are.
LEMMA IdBounded ==
  ASSUME Shapes, NEW k \in Kinds, Counted(k), calls \in 0..MaxCalls,
         NEW i \in 1 .. Len(records[k])
  PROVE  i \in 1 .. Len(Existing) + MaxCalls
<1>1. records[k] \in Seq(Record) /\ Len(records[k]) \in Nat
  BY LenProperties DEF Shapes
<1>2. Cardinality(Adders(k)) \in Nat /\ Len(records[k]) + Cardinality(Adders(k)) <= Len(Existing) + calls
  BY FS_CardinalityType DEF Counted
<1> QED BY <1>1, <1>2, ExistingNat

\* What a client chooses is bounded, if the id is.
LEMMA ChoiceBounded ==
  ASSUME Shapes, NEW c \in Clients, CallFits(c), call[c].at = "make", ChosenBounded,
         NEW id \in Nat, Choose(c, id), id \in 1 .. Len(Existing) + MaxCalls
  PROVE  ChosenBounded'
<1>1. call[c].name \in Names
  BY DEF CallFits
<1>2. PICK e : e = [id |-> id, name |-> call[c].name]
  OBVIOUS
<1>3. e \in Entry /\ e.id = id
  BY <1>1, <1>2 DEF Entry
<1>4. \A d \in Clients, k \in Records : chosen'[d][k] \in {chosen[d][k], id}
  BY Chosen DEF Records
<1>5. ASSUME NEW d \in Clients, NEW k \in Records, chosen'[d][k] # None
      PROVE  \E f \in Entry : f.id = chosen'[d][k]
  BY <1>3, <1>4, <1>5 DEF ChosenBounded
<1> QED BY <1>5 DEF ChosenBounded

\* The record in the dict is one of those counted.
LEMMA UseKnownBounds ==
  ASSUME PlanInv, Bounds, NEW c \in Clients, UseKnown(c)
  PROVE  Bounds'
<1>1. PICK k \in Kinds : k = call[c].kind
  BY DEF PlanInv, Shapes, CallShape
<1>2. PICK e \in known[c][k] : Choose(c, e.id)
  BY <1>1 DEF UseKnown, KnownAs
<1>3. /\ call[c].at = "make" /\ HaveRecord(c) /\ CallFits(c) /\ Shapes
      /\ UNCHANGED <<records, calls, faults, asked, troubled, failed, stale>>
  BY DEF UseKnown, At, rqm, history, PlanInv, ClientInv
<1>4. e.id \in Nat /\ e.id \in 1 .. Len(records[k])
  <2>1. known[c][k] \in SUBSET Named /\ records[k] \in Seq(Record)
    BY DEF PlanInv, Shapes
  <2>2. KnownTrue(c)
    BY DEF PlanInv, ClientInv
  <2>3. e.id \in DOMAIN records[k] /\ e.id \in Nat
    BY <2>1, <2>2 DEF KnownTrue, Named
  <2> QED BY <2>1, <2>3, LenProperties
<1>5. e.id \in 1 .. Len(Existing) + MaxCalls
  BY <1>3, <1>4, IdBounded DEF Bounds
<1>6. ChosenBounded'
  BY <1>2, <1>3, <1>4, <1>5, ChoiceBounded DEF Bounds
<1>7. PICK x : Follows(c, x)
  BY <1>3, HasFollows
<1> QED BY <1>3, <1>6, <1>7, QuietBounds DEF Bounds

\* A record is made: there was a place for it.
LEMMA MakeBounds ==
  ASSUME PlanInv, Bounds, NEW c \in Clients, Create(c) \/ CreateLost(c)
  PROVE  Bounds'
<1>1. /\ call[c].at = "make" /\ CallFits(c) /\ Shapes /\ AddRecord(c)
      /\ UNCHANGED <<calls, asked, stale>>
  BY DEF Create, CreateLost, Posts, At, PlanInv, ClientInv
<1>2. PICK x : Follows(c, x) /\ ~CanAdd(x, call[c].kind)
  <2>1. CASE Create(c)
    BY <1>1, <2>1, HasFollows DEF Create
  <2>2. CASE CreateLost(c)
    BY <1>1, <2>2, EndFollows DEF CreateLost, Fail
  <2> QED BY <2>1, <2>2
<1>3. ASSUME NEW k \in Kinds PROVE Counted(k)'
  BY <1>1, <1>2, ExistingNat, AddCounts DEF Bounds
<1>4. faults' \in 0..MaxFaults
  <2>1. faults' = faults \/ (faults < MaxFaults /\ faults' = faults + 1)
    BY DEF Create, CreateLost, Fault
  <2> QED BY <2>1, ExistingNat DEF Bounds
<1>5. troubled' \subseteq Clients /\ failed' \subseteq Clients
  BY DEF Create, CreateLost, Rivals, Fail, Bounds
<1>6. WantsKnown'
  BY <1>1, <1>2 DEF Bounds, WantsKnown, Follows
<1>7. ChosenBounded'
  <2>1. CASE Create(c)
    <3>1. PICK k \in Kinds : k = call[c].kind /\ Added(c, k)
      BY <1>1, RecordAdded
    <3>2. PICK id : id = Len(records[k]) + 1
      OBVIOUS
    <3>3. Choose(c, id)
      BY <2>1, <3>1, <3>2 DEF Create
    <3>4. /\ records'[k] \in Seq(Record) /\ DOMAIN records'[k] = 1 .. Len(records[k]) + 1
          /\ Len(records[k]) \in Nat
      BY <3>1 DEF Added
    <3>5. id \in Nat /\ Len(records'[k]) = id
      BY <3>2, <3>4, LenProperties
    <3>6. Cardinality(Adders(k)') \in Nat
          /\ Len(records'[k]) + Cardinality(Adders(k)') <= Len(Existing) + calls
      BY <1>1, <1>3, FS_CardinalityType DEF Counted
    <3>7. id \in 1 .. Len(Existing) + MaxCalls
      BY <3>2, <3>4, <3>5, <3>6, ExistingNat DEF Bounds
    <3> QED BY <1>1, <3>3, <3>5, <3>7, ChoiceBounded DEF Bounds
  <2>2. CASE CreateLost(c)
    BY <2>2 DEF CreateLost, client, Bounds, ChosenBounded
  <2> QED BY <2>1, <2>2
<1> QED BY <1>1, <1>3, <1>4, <1>5, <1>6, <1>7 DEF Bounds

----
(* The theorems. *)

\* What RQM has from the start, and clients that have not called.
LEMMA PlanInit == Init => PlanInv
<1> SUFFICES ASSUME Init PROVE PlanInv
  OBVIOUS
<1> DEFINE rs == [i \in DOMAIN Existing |-> [name |-> Existing[i], by |-> None]]
<1>1. /\ Existing \in Seq(Names) /\ Len(Existing) \in Nat
      /\ DOMAIN Existing = 1 .. Len(Existing)
      /\ \A i \in 1 .. Len(Existing) : Existing[i] \in Names
  BY InputsAssumption, LenProperties, ElementOfSeq
<1>2. \A i \in 1 .. Len(Existing) : [name |-> Existing[i], by |-> None] \in Record
  BY <1>1 DEF Record
<1>3. rs \in [1 .. Len(Existing) -> Record]
  BY <1>1, <1>2
<1>4. rs \in Seq(Record)
  BY <1>1, <1>3, SeqDef
<1>5. \A i \in DOMAIN rs : rs[i].by = None
  OBVIOUS
<1>6. records = [k \in Kinds |-> rs]
  BY DEF Init
<1> HIDE DEF rs
<1>7. Shapes
  BY <1>4, <1>6, IdleShape DEF Init, Shapes, NoWant
<1>8. ASSUME NEW c \in Clients PROVE ClientInv(c)
  <2>1. call[c] = Idle /\ asked[c] = NoWant /\ \A k \in Kinds : known[c][k] = {}
    BY DEF Init
  <2> QED BY <2>1 DEF ClientInv, CallFits, KnownTrue, SeesEnough, Makes, SoFar,
                       AskedRight, Right, Idle, NoWant
<1>9. RecordsOnce
  BY <1>5, <1>6 DEF RecordsOnce, Kinds
<1>10. FailsOnlyTroubled /\ LinksKept
  BY DEF Init, FailsOnlyTroubled, LinksKept
<1> QED BY <1>7, <1>8, <1>9, <1>10 DEF PlanInv

LEMMA PlanNext == PlanInv /\ [Next]_vars => PlanInv'
<1> SUFFICES ASSUME PlanInv, [Next]_vars PROVE PlanInv'
  OBVIOUS
<1>1. CASE UNCHANGED vars
  <2>1. /\ UNCHANGED <<records, links, known, chosen, call>>
        /\ UNCHANGED <<asked, troubled, failed, reported, stale>>
    BY <1>1 DEF vars, rqm, client, history
  <2>2. \A c \in Clients : ClientInv(c)'
    BY <2>1, Unmoved DEF PlanInv
  <2> QED BY <2>1, <2>2 DEF PlanInv, Shapes, RecordsOnce, FailsOnlyTroubled, LinksKept
<1>2. CASE Next
  <2>1. PICK c \in Clients :
          \/ BeginConfig(c) \/ BeginSuite(c) \/ BeginSuites(c) \/ BeginLink(c)
          \/ GetPlan(c) \/ GetPlanFails(c) \/ List(c) \/ ListFails(c) \/ RefuseEmpty(c)
          \/ UseKnown(c) \/ Create(c) \/ CreateSeeOther(c) \/ CreateRefused(c) \/ CreateLost(c)
          \/ GetTeams(c) \/ GetTeamsFails(c)
          \/ GetDocument(c) \/ GetDocumentFails(c)
          \/ PutDocument(c) \/ PutRefused(c) \/ PutLost(c)
    BY <1>2 DEF Next
  <2> QED BY <2>1, BeginsKeep, FailsKeep, GetPlanKeeps, ListKeeps, UseKnownKeeps, CreateKeeps,
             CreateSeeOtherKeeps, CreateLostKeeps, GetTeamsKeeps, GetDocumentKeeps, PutsKeep
<1> QED BY <1>1, <1>2

LEMMA BoundsNext == PlanInv /\ Bounds /\ [Next]_vars => Bounds'
<1> SUFFICES ASSUME PlanInv, Bounds, [Next]_vars PROVE Bounds'
  OBVIOUS
<1>1. CASE UNCHANGED vars
  BY <1>1 DEF vars, rqm, client, history, Bounds, Counted, Adders, ChosenBounded, WantsKnown
<1>2. CASE Next
  <2>1. PICK c \in Clients :
          \/ BeginConfig(c) \/ BeginSuite(c) \/ BeginSuites(c) \/ BeginLink(c)
          \/ GetPlan(c) \/ GetPlanFails(c) \/ List(c) \/ ListFails(c) \/ RefuseEmpty(c)
          \/ UseKnown(c) \/ Create(c) \/ CreateSeeOther(c) \/ CreateRefused(c) \/ CreateLost(c)
          \/ GetTeams(c) \/ GetTeamsFails(c)
          \/ GetDocument(c) \/ GetDocumentFails(c)
          \/ PutDocument(c) \/ PutRefused(c) \/ PutLost(c)
    BY <1>2 DEF Next
  <2> QED BY <2>1, BeginsBound, EndBounds, GoOnBounds, UseKnownBounds, MakeBounds
<1> QED BY <1>1, <1>2

\* At the start nobody may add a record, and nothing has been chosen.
LEMMA BoundsInit == Init => Bounds
<1> SUFFICES ASSUME Init PROVE Bounds
  OBVIOUS
<1>1. \A c \in Clients : call[c] = Idle /\ Idle.want = NoWant /\ Idle.at = "idle"
  BY DEF Init, Idle
<1>2. ASSUME NEW k \in Kinds PROVE Counted(k)
  <2>1. Adders(k) = {}
    BY <1>1 DEF Adders, CanAdd
  <2>2. Len(records[k]) = Len(Existing)
    <3> DEFINE rs == [i \in DOMAIN Existing |-> [name |-> Existing[i], by |-> None]]
    <3>1. records[k] = rs /\ DOMAIN rs = DOMAIN Existing
      BY DEF Init
    <3>2. records[k] \in Seq(Record)
      BY PlanInit DEF PlanInv, Shapes
    <3>3. Existing \in Seq(Names)
      BY InputsAssumption
    <3> HIDE DEF rs
    <3> QED BY <3>1, <3>2, <3>3, LenProperties
  <2> QED BY <2>1, <2>2, ExistingNat, FS_EmptySet DEF Counted, Init
<1>3. ChosenBounded /\ WantsKnown
  BY <1>1 DEF Init, ChosenBounded, WantsKnown
<1> QED BY <1>2, <1>3, ExistingNat DEF Init, Bounds

\* The shapes of PlanInv with the bounds are the types.
LEMMA BoundsType == PlanInv /\ Bounds => TypeOK
<1> SUFFICES ASSUME PlanInv, Bounds PROVE TypeOK
  OBVIOUS
<1>1. /\ records \in [Kinds -> Seq(Record)] /\ links \in [Documents -> SUBSET Links]
      /\ reported \in [Documents -> SUBSET Links]
  BY DEF PlanInv, Shapes
<1>2. known \in [Clients -> [Kinds -> SUBSET Entry]]
  <2>1. ASSUME NEW c \in Clients, NEW k \in Kinds, NEW e \in known[c][k]
        PROVE  e \in Entry
    <3>1. known[c][k] \in SUBSET Named /\ records[k] \in Seq(Record)
      BY DEF PlanInv, Shapes
    <3>2. KnownTrue(c)
      BY DEF PlanInv, ClientInv
    <3>3. e.id \in 1 .. Len(records[k])
      BY <3>1, <3>2, LenProperties DEF KnownTrue
    <3>4. e.id \in 1 .. Len(Existing) + MaxCalls
      BY <3>3, IdBounded DEF PlanInv, Bounds
    <3> QED BY <3>1, <3>4 DEF Named, Entry
  <2>2. known \in [Clients -> [Kinds -> SUBSET Named]]
    BY DEF PlanInv, Shapes
  <2> QED BY <2>1, <2>2
<1>3. chosen \in [Clients -> [Records -> {e.id : e \in Entry} \cup {None}]]
  <2>1. chosen \in [Clients -> [Records -> Nat \cup {None}]]
    BY DEF PlanInv, Shapes
  <2>2. \A c \in Clients, k \in Records : chosen[c][k] \in {e.id : e \in Entry} \cup {None}
    BY DEF Bounds, ChosenBounded
  <2> QED BY <2>1, <2>2
<1>4. call \in [Clients -> Call]
  <2>1. ASSUME NEW c \in Clients PROVE call[c] \in Call
    <3>1. call[c] \in CallShape /\ call[c].want \in Wants \cup {NoWant}
      BY DEF PlanInv, Shapes, Bounds, WantsKnown
    <3> QED BY <3>1 DEF CallShape, Call
  <2>2. call \in [Clients -> CallShape]
    BY DEF PlanInv, Shapes
  <2> QED BY <2>1, <2>2
<1>5. asked \in [Clients -> Wants \cup {NoWant}]
  <2>1. DOMAIN asked = Clients /\ asked = [c \in DOMAIN asked |-> asked[c]]
    BY DEF PlanInv, Shapes
  <2> QED BY <2>1 DEF Bounds, WantsKnown
<1> QED BY <1>1, <1>2, <1>3, <1>4, <1>5 DEF TypeOK, Bounds

\* What clients know, have chosen and are about to do fits what RQM has.
THEOREM PlanHolds == Spec => []PlanInv
BY PlanInit, PlanNext, PTL DEF Spec

\* The types, for every number of calls: ids count the records there are, and
\* a call makes one of each kind at most.
THEOREM PlanTypes == Spec => []TypeOK
<1>1. Spec => []Bounds
  BY BoundsInit, BoundsNext, PlanHolds, PTL DEF Spec
<1> QED BY <1>1, PlanHolds, BoundsType, PTL

\* config, retried after any failure and beside any number of others, makes no
\* build record and no test environment a second time.
THEOREM RecordedOnce == Spec => []RecordsOnce
<1>1. PlanInv => RecordsOnce
  BY DEF PlanInv
<1> QED BY <1>1, PlanHolds, PTL

\* When config has returned, the client's build and configuration are records
\* with the names it was called with.
THEOREM ConfiguresRight == Spec => []ConfiguredRight
<1>1. PlanInv => ConfiguredRight
  BY DEF PlanInv, ClientInv, AskedRight, Right, ConfiguredRight
<1> QED BY <1>1, PlanHolds, PTL

\* No call fails but for a fault, an empty name or another client's record.
THEOREM FailsTroubled == Spec => []FailsOnlyTroubled
<1>1. PlanInv => FailsOnlyTroubled
  BY DEF PlanInv
<1> QED BY <1>1, PlanHolds, PTL

\* Links are lost only where a document was written back after it had changed.
THEOREM LinksAreKept == Spec => []LinksKept
<1>1. PlanInv => LinksKept
  BY DEF PlanInv
<1> QED BY <1>1, PlanHolds, PTL
====
