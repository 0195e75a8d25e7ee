---- MODULE RqmPlan ----
(***************************************************************************)
(* What CRQMClient (CRQM.py) does for programs that import test results:   *)
(* config looks up or creates the build record and the test environment of *)
(* a test plan, createTestsuite creates a suite, and the link methods read *)
(* a plan or a suite, add to it and write it back.  Nothing in the         *)
(* repository calls them, so any call may come at any time.                *)
(*                                                                         *)
(* Every client is a CRQMClient object of its own, with its own dicts of   *)
(* ids and names, and one thread; what they share is RQM, which is         *)
(* external.  One action is the code from one call to RQM up to the next.  *)
(***************************************************************************)
EXTENDS Naturals, Sequences

CONSTANTS
  Clients,     \* CRQMClient objects
  Names,       \* names of records, each of which RQM has or has not
  Existing,    \* the names RQM has from the start, in every kind
  Cases,       \* test cases to link
  Wants,       \* build_name and config_name of calls of config
  OnExisting,  \* RQM's answers to the POST of a name it has
  Faults,      \* what may go wrong
  MaxCalls,    \* bound: calls
  MaxFaults,   \* bound: how often something goes wrong
  None         \* no value

Records == {"buildrecord", "configuration"}
Kinds == Records \cup {"testsuite"}
FaultKinds == {"failed", "refused", "lost"}

ASSUME InputsAssumption ==
  /\ Wants \subseteq [Records -> Names \cup {None, ""}]
  /\ Existing \in Seq(Names) /\ "" \notin Names
  /\ None \notin Names /\ None \notin Clients
ASSUME BoundsAssumption ==
  /\ OnExisting \subseteq {"duplicate", "see_other"} /\ OnExisting # {}
  /\ Faults \subseteq FaultKinds /\ MaxCalls \in Nat /\ MaxFaults \in Nat

VARIABLES
  records,   \* kind -> the records on RQM; their ids are positions
  links,     \* document -> what it links
  known,     \* client -> dBuildVersion, dConfiguation and dTestsuite
  chosen,    \* client -> the ids in its build and configuration
  call,      \* client -> the call it is in
  calls,     \* calls begun
  faults,    \* calls to RQM that went wrong so far
  asked,     \* history: client -> what its last config wanted, if it returned
  troubled,  \* history: clients whose call something got in the way of
  failed,    \* history: clients whose last call failed
  reported,  \* history: document -> links whose call said success
  stale      \* history: documents written back after they had changed

rqm == <<records, links>>
client == <<known, chosen>>
history == <<asked, troubled, failed, reported, stale>>
vars == <<rqm, client, call, calls, faults, history>>

Record == [name: Names, by: Clients \cup {None}]
Suites == 1 .. Len(Existing) + MaxCalls
\* The test plan and the suites, by id.
Plan == 0
Documents == {Plan} \cup Suites
Links == ({"testcase"} \X Cases) \cup ({"testsuite"} \X Suites)
Entry == [id: 1 .. Len(Existing) + MaxCalls, name: Names]
NoWant == [k \in Records |-> None]
Idle == [at |-> "idle", op |-> "none", kind |-> "buildrecord", want |-> NoWant,
         name |-> None, doc |-> Plan, add |-> {}, read |-> {}]
Call == [at: {"idle", "plan", "list", "make", "teams", "get", "put"},
         op: {"none", "config", "suites", "suite", "link"},
         kind: Kinds, want: Wants \cup {NoWant}, name: Names \cup {None, ""},
         doc: Documents, add: SUBSET Links, read: SUBSET Links]

Init ==
  /\ records = [k \in Kinds |-> [i \in DOMAIN Existing |->
                                   [name |-> Existing[i], by |-> None]]]
  /\ links = [d \in Documents |-> {}]
  /\ known = [c \in Clients |-> [k \in Kinds |-> {}]]
  /\ chosen = [c \in Clients |-> [k \in Records |-> None]]
  /\ call = [c \in Clients |-> Idle]
  /\ calls = 0 /\ faults = 0
  /\ asked = [c \in Clients |-> NoWant]
  /\ troubled = {} /\ failed = {}
  /\ reported = [d \in Documents |-> {}] /\ stale = {}

----
(* Calls begin and end. *)

At(c, at) == call[c].at = at

Begin(c, r) ==
  /\ At(c, "idle") /\ calls < MaxCalls
  /\ calls' = calls + 1
  /\ call' = [call EXCEPT ![c] = r]
  /\ asked' = IF r.op = "config" THEN [asked EXCEPT ![c] = NoWant] ELSE asked
  /\ troubled' = troubled \ {c} /\ failed' = failed \ {c}
  /\ UNCHANGED <<rqm, client, faults, reported, stale>>

End(c) == call' = [call EXCEPT ![c] = Idle]

\* Mutated form: a name that is not given is looked up like any other.
GoOnUnwanted(c, kinds) ==
  LET k == IF "buildrecord" \in kinds THEN "buildrecord" ELSE "configuration"
  IN call' = [call EXCEPT ![c] =
       IF kinds = {} THEN [@ EXCEPT !.at = "teams"]
       ELSE [@ EXCEPT !.at = "list", !.kind = k, !.name = call[c].want[k]]]

\* config goes on with the names that are wanted, then with the team areas.
GoOn(c, kinds) ==
  LET wanted == {k \in kinds : call[c].want[k] # None}
      k == IF "buildrecord" \in wanted THEN "buildrecord" ELSE "configuration"
  IN call' = [call EXCEPT ![c] =
       IF wanted = {} THEN [@ EXCEPT !.at = "teams"]
       ELSE [@ EXCEPT !.at = "list", !.kind = k, !.name = call[c].want[k]]]

\* The step after a record has its id.
HaveRecord(c) ==
  CASE call[c].op = "suite" -> End(c)
    [] call[c].kind = "buildrecord" -> GoOn(c, {"configuration"})
    [] call[c].kind = "configuration" -> GoOn(c, {})

\* An exception, or an answer without success.
Fail(c) ==
  /\ End(c)
  /\ failed' = failed \cup {c}

Fault(kind) == kind \in Faults /\ faults < MaxFaults /\ faults' = faults + 1

----
(* config: the test plan, the build record, the test environment. *)

BeginConfig(c) ==
  \E want \in Wants :
    Begin(c, [Idle EXCEPT !.op = "config", !.at = "plan", !.want = want])

GetPlan(c) ==
  /\ At(c, "plan")
  /\ GoOn(c, Records)
  /\ UNCHANGED <<rqm, client, calls, faults, history>>

\* There is no such plan: to the client the same as an error of RQM's.
GetPlanFails(c) ==
  /\ At(c, "plan") /\ Fault("failed")
  /\ Fail(c) /\ troubled' = troubled \cup {c}
  /\ UNCHANGED <<rqm, client, calls, asked, reported, stale>>

\* Mutated form: a dict that has entries is not read again.
ListOnce(c) ==
  LET k == call[c].kind
  IN /\ At(c, "list") /\ call[c].name # ""
     /\ known' = [known EXCEPT ![c][k] =
                    IF @ # {} THEN @
                    ELSE {[id |-> i, name |-> records[k][i].name] : i \in DOMAIN records[k]}]
     /\ IF call[c].op = "suites" THEN End(c) ELSE call' = [call EXCEPT ![c].at = "make"]
     /\ UNCHANGED <<rqm, chosen, calls, faults, history>>

\* getAll...: the feed is read page after page; records are added at its end,
\* so none is missed that was there when the first page was read.
List(c) ==
  LET k == call[c].kind
  IN /\ At(c, "list") /\ call[c].name # ""
     /\ known' = [known EXCEPT ![c][k] =
                    {[id |-> i, name |-> records[k][i].name] : i \in DOMAIN records[k]}]
     /\ IF call[c].op = "suites" THEN End(c) ELSE call' = [call EXCEPT ![c].at = "make"]
     /\ UNCHANGED <<rqm, chosen, calls, faults, history>>

ListFails(c) ==
  /\ At(c, "list") /\ call[c].name # "" /\ Fault("failed")
  /\ Fail(c) /\ troubled' = troubled \cup {c}
  /\ UNCHANGED <<rqm, client, calls, asked, reported, stale>>

\* "Build name should not be empty."
RefuseEmpty(c) ==
  /\ At(c, "list") /\ call[c].name = ""
  /\ Fail(c) /\ troubled' = troubled \cup {c}
  /\ UNCHANGED <<rqm, client, calls, faults, asked, reported, stale>>

\* Mutated form: the first id of the dict, not the one beside the name.
FirstKnown(c) == {e \in known[c][call[c].kind] : \A f \in known[c][call[c].kind] : e.id <= f.id}
KnownAs(c) == {e \in known[c][call[c].kind] : e.name = call[c].name}
OnRqm(c) == \E i \in DOMAIN records[call[c].kind] : records[call[c].kind][i].name = call[c].name

Choose(c, id) ==
  chosen' = IF call[c].op = "config" THEN [chosen EXCEPT ![c][call[c].kind] = id]
                                     ELSE chosen

\* In the dict: "303" with the id that stands beside the name.
UseKnown(c) ==
  /\ At(c, "make")
  /\ \E e \in KnownAs(c) : Choose(c, e.id)
  /\ HaveRecord(c)
  /\ UNCHANGED <<rqm, known, calls, faults, history>>

\* Mutated form: forceCreate.
PostsAnyway(c) == At(c, "make")
\* A POST is sent for names the dict has not.
Posts(c) == At(c, "make") /\ KnownAs(c) = {}
AddRecord(c) ==
  records' = [records EXCEPT ![call[c].kind] = Append(@, [name |-> call[c].name, by |-> c])]
\* A record made now gets in the way of all who are looking for its name.
Rivals(c) == {d \in Clients \ {c} : call[d].op \in {"config", "suite"}}

Create(c) ==
  LET id == Len(records[call[c].kind]) + 1
  IN /\ Posts(c) /\ (OnRqm(c) => "duplicate" \in OnExisting)
     /\ AddRecord(c)
     /\ known' = [known EXCEPT ![c][call[c].kind] = @ \cup {[id |-> id, name |-> call[c].name]}]
     /\ Choose(c, id)
     /\ HaveRecord(c)
     /\ troubled' = troubled \cup Rivals(c)
     /\ UNCHANGED <<links, calls, faults, asked, failed, reported, stale>>

\* RQM has the name: createResource returns the number 303 and the id, which
\* config compares with "303".
CreateSeeOther(c) ==
  /\ Posts(c) /\ OnRqm(c) /\ "see_other" \in OnExisting
  /\ IF call[c].op = "config" THEN Fail(c) ELSE End(c) /\ UNCHANGED failed
  /\ UNCHANGED <<rqm, client, calls, faults, asked, troubled, reported, stale>>

CreateRefused(c) ==
  /\ Posts(c) /\ Fault("refused")
  /\ Fail(c) /\ troubled' = troubled \cup {c}
  /\ UNCHANGED <<rqm, client, calls, asked, reported, stale>>

\* The record is there, but the answer is lost or its id cannot be read.
CreateLost(c) ==
  /\ Posts(c) /\ (OnRqm(c) => "duplicate" \in OnExisting) /\ Fault("lost")
  /\ AddRecord(c)
  /\ Fail(c) /\ troubled' = troubled \cup {c} \cup Rivals(c)
  /\ UNCHANGED <<links, client, calls, asked, reported, stale>>

\* getAllTeamAreas, the last call of config.
GetTeams(c) ==
  /\ At(c, "teams")
  /\ End(c)
  /\ asked' = [asked EXCEPT ![c] = call[c].want]
  /\ UNCHANGED <<rqm, client, calls, faults, troubled, failed, reported, stale>>

GetTeamsFails(c) ==
  /\ At(c, "teams") /\ Fault("failed")
  /\ Fail(c) /\ troubled' = troubled \cup {c}
  /\ UNCHANGED <<rqm, client, calls, asked, reported, stale>>

----
(* Test suites: created by name, listed only when the caller asks for it. *)

BeginSuite(c) ==
  \E name \in Names :
    Begin(c, [Idle EXCEPT !.op = "suite", !.at = "make", !.kind = "testsuite", !.name = name])

BeginSuites(c) ==
  Begin(c, [Idle EXCEPT !.op = "suites", !.at = "list", !.kind = "testsuite"])

----
(* Links: GET the document, add to it, PUT it back; no lock, no ETag. *)

BeginLink(c) ==
  \E doc \in Documents, l \in Links :
    /\ doc # Plan => doc \in DOMAIN records["testsuite"] /\ l[1] = "testcase"
    /\ l[1] = "testsuite" => l[2] \in DOMAIN records["testsuite"]
    /\ Begin(c, [Idle EXCEPT !.op = "link", !.at = "get", !.doc = doc, !.add = {l}])

GetDocument(c) ==
  /\ At(c, "get")
  /\ call' = [call EXCEPT ![c].read = links[call[c].doc], ![c].at = "put"]
  /\ UNCHANGED <<rqm, client, calls, faults, history>>

GetDocumentFails(c) ==
  /\ At(c, "get") /\ Fault("failed")
  /\ Fail(c) /\ troubled' = troubled \cup {c}
  /\ UNCHANGED <<rqm, client, calls, asked, reported, stale>>

\* Mutated form: only the new links are sent.
NewContentOnly(c) == call[c].add
Content(c) == call[c].read \cup call[c].add

WriteDocument(c) ==
  LET d == call[c].doc
  IN /\ links' = [links EXCEPT ![d] = Content(c)]
     /\ stale' = IF links[d] # call[c].read THEN stale \cup {d} ELSE stale

PutDocument(c) ==
  /\ At(c, "put")
  /\ WriteDocument(c)
  /\ reported' = [reported EXCEPT ![call[c].doc] = @ \cup call[c].add]
  /\ End(c)
  /\ UNCHANGED <<records, client, calls, faults, asked, troubled, failed>>

PutRefused(c) ==
  /\ At(c, "put") /\ Fault("refused")
  /\ Fail(c) /\ troubled' = troubled \cup {c}
  /\ UNCHANGED <<rqm, client, calls, asked, reported, stale>>

PutLost(c) ==
  /\ At(c, "put") /\ Fault("lost")
  /\ WriteDocument(c)
  /\ Fail(c) /\ troubled' = troubled \cup {c}
  /\ UNCHANGED <<records, client, calls, asked, reported>>

----

Next ==
  \E c \in Clients :
    \/ BeginConfig(c) \/ BeginSuite(c) \/ BeginSuites(c) \/ BeginLink(c)
    \/ GetPlan(c) \/ GetPlanFails(c) \/ List(c) \/ ListFails(c) \/ RefuseEmpty(c)
    \/ UseKnown(c) \/ Create(c) \/ CreateSeeOther(c) \/ CreateRefused(c) \/ CreateLost(c)
    \/ GetTeams(c) \/ GetTeamsFails(c)
    \/ GetDocument(c) \/ GetDocumentFails(c)
    \/ PutDocument(c) \/ PutRefused(c) \/ PutLost(c)

Spec == Init /\ [][Next]_vars

----
(* Properties. *)

TypeOK ==
  /\ records \in [Kinds -> Seq(Record)] /\ links \in [Documents -> SUBSET Links]
  /\ known \in [Clients -> [Kinds -> SUBSET Entry]]
  /\ chosen \in [Clients -> [Records -> {e.id : e \in Entry} \cup {None}]]
  /\ call \in [Clients -> Call]
  /\ calls \in 0..MaxCalls /\ faults \in 0..MaxFaults
  /\ asked \in [Clients -> Wants \cup {NoWant}]
  /\ troubled \subseteq Clients /\ failed \subseteq Clients
  /\ reported \in [Documents -> SUBSET Links] /\ stale \subseteq Documents

\* A client that retries config, after lost answers or while others configure
\* theirs, never makes a record twice, nor one that was there from the start
\* ("Tool will check if build record is already existing or not").  Two
\* clients can still make one each: the check is no lock.
RecordsOnce ==
  \A k \in Records : \A j \in DOMAIN records[k] :
    records[k][j].by # None =>
      \A i \in 1 .. j - 1 : records[k][i].name = records[k][j].name
                             => records[k][i].by \notin {None, records[k][j].by}

\* Results are linked to what was asked for: when config has returned, the
\* build and the configuration of the client are records on RQM with the
\* names it was called with, whatever failed in the calls before.
ConfiguredRight ==
  \A c \in Clients, k \in Records :
    asked[c][k] # None =>
      /\ chosen[c][k] \in DOMAIN records[k]
      /\ records[k][chosen[c][k]].name = asked[c][k]

\* A call fails only if a call to RQM did, a name was empty, or another
\* client made a record in the meantime (the 303 config does not understand):
\* what is left of failed calls never makes the next one fail.
FailsOnlyTroubled == failed \subseteq troubled

\* A link whose call said success is lost only if a document was written back
\* that had been read before someone else changed it.
LinksKept == \A d \in Documents \ stale : reported[d] \subseteq links[d]
====
