---- MODULE RqmTestcases ----
(***************************************************************************)
(* The test cases of RQM (app/views.py, utils/utils.py, CRQM.py): the      *)
(* requests that list, create, show and change them, the copies they keep  *)
(* in the Django cache, and the one RQM session that all requests and all  *)
(* threads of a bulk creation share.                                       *)
(*                                                                         *)
(* A document stands for the JSON of a test case.  Its title goes into a   *)
(* test case, its steps into a test script the test case links to; ids are *)
(* positions in the order of creation.  RQM itself is external.            *)
(***************************************************************************)
EXTENDS Integers, Sequences, FiniteSets, SequencesExt, Subsequences

CONSTANTS
  Workers,      \* request threads of the server
  Docs,         \* documents
  None,         \* no value
  PageSize,     \* entries in a page of RQM's feed
  MaxItems,     \* bound: documents in a bulk creation
  MaxRequests,  \* bound: requests
  Faults,       \* what may go wrong
  MaxFaults     \* bound: how often

FaultKinds == {"login", "refuse", "lost", "raise", "page"}
ASSUME BoundsAssumption ==
  /\ PageSize \in Nat \ {0} /\ MaxItems \in Nat \ {0} /\ MaxRequests \in Nat
  /\ MaxFaults \in Nat /\ Faults \subseteq FaultKinds /\ None \notin Docs

CaseIds == 1 .. 1 + MaxRequests * MaxItems
Entry == [id: CaseIds, name: Docs]
Sheet == [title: Docs, steps: Docs]
Listing == [entries: Seq(Entry), number: Nat, success: BOOLEAN]

VARIABLES
  cases,     \* test cases on RQM
  scripts,   \* test scripts on RQM
  matched,   \* the client's CSRF header carries its session's cookie
  listing,   \* cache: RQM:get_all:testcase
  sheets,    \* cache: RQM:get_testscript:{pk}
  job,       \* the request of each worker
  threads,   \* its threads of control on the shared client
  requests,  \* requests begun
  faults,    \* calls to RQM that went wrong so far
  overlap    \* history: a request began before another one ended

rqm == <<cases, scripts>>
caches == <<listing, sheets>>
vars == <<rqm, matched, caches, job, threads, requests, faults, overlap>>

history == <<requests, faults, overlap>>
Idle == [at |-> "idle", id |-> 0, got |-> None]
Job == [at: {"idle", "list", "listed", "create", "append", "retrieve", "sheet",
             "update", "restore", "reread", "rename"},
        id: CaseIds \cup {0},
        got: {None} \cup Listing \cup Sheet]
Thread == [doc: Docs \cup {None}, script: Nat, id: Nat,
           at: {"login", "header", "post_script", "post_case", "get_case", "get_script",
                "put_case", "put_script", "made", "failed", "raised"}]
Ended == {"made", "failed", "raised"}

At(w, i) == IF i \in DOMAIN threads[w] THEN threads[w][i].at ELSE "none"
NewThread(doc) == [doc |-> doc, script |-> 0, id |-> 0, at |-> "login"]

\* The documents the templates make of one document.
TestscriptTemplate(doc) == [steps |-> doc]
TestcaseTemplate(doc, script) == [title |-> doc, script |-> script]

\* The server starts with RQM and Redis as another run has left them.
Init ==
  \E doc \in Docs :
    /\ cases = <<TestcaseTemplate(doc, 1)>> /\ scripts = <<TestscriptTemplate(doc)>>
    /\ matched = FALSE
    /\ listing \in {None, [entries |-> <<[id |-> 1, name |-> doc]>>, number |-> 1,
                          success |-> TRUE]}
    /\ sheets = [id \in CaseIds |-> None]
    /\ job = [w \in Workers |-> Idle] /\ threads = [w \in Workers |-> << >>]
    /\ requests = 0 /\ faults = 0 /\ overlap = FALSE

----
(* Requests begin and end. *)

Begin(w, j, ts) ==
  /\ job[w].at = "idle" /\ requests < MaxRequests
  /\ requests' = requests + 1
  /\ job' = [job EXCEPT ![w] = j]
  /\ threads' = [threads EXCEPT ![w] = ts]
  /\ overlap' = (overlap \/ \E v \in Workers : job[v].at # "idle")
  /\ UNCHANGED <<rqm, matched, caches, faults>>

Goto(w, at) == job' = [job EXCEPT ![w].at = at]
GoWith(w, at, got) == job' = [job EXCEPT ![w].at = at, ![w].got = got]
End(w) == job' = [job EXCEPT ![w] = Idle] /\ threads' = [threads EXCEPT ![w] = << >>]
Fault(kind) == kind \in Faults /\ faults < MaxFaults /\ faults' = faults + 1

----
(* getAll: on a miss, page after page through a client of its own. *)

List(w) ==
  /\ listing = None
  /\ Begin(w, [Idle EXCEPT !.at = "list", !.got = [entries |-> << >>, number |-> 0,
                                                      success |-> TRUE]], << >>)

Titles(from, to) == [k \in 1 .. to - from + 1 |->
                       [id |-> from + k - 1, name |-> cases[from + k - 1].title]]

FetchPage(w) ==
  LET got == job[w].got
      n == Len(got.entries)
      last == IF n + PageSize < Len(cases) THEN n + PageSize ELSE Len(cases)
      read == [got EXCEPT !.entries = @ \o Titles(n + 1, last)]
  IN /\ job[w].at = "list"
     /\ GoWith(w, IF last < Len(cases) THEN "list" ELSE "listed", read)
     /\ UNCHANGED <<rqm, matched, caches, threads, history>>

\* A page that cannot be read: of what was read only the first page is left.
FetchFails(w) ==
  LET got == job[w].got
  IN /\ job[w].at = "list" /\ Fault("page")
     /\ GoWith(w, "listed",
          [got EXCEPT !.success = FALSE,
                      !.entries = IF Len(@) <= PageSize THEN @ ELSE SubSeq(@, 1, PageSize)])
     /\ UNCHANGED <<rqm, matched, caches, threads, requests, overlap>>

\* Success or not, the result is cached.
StoreListing(w) ==
  /\ job[w].at = "listed"
  /\ listing' = [job[w].got EXCEPT !.number = Len(job[w].got.entries)]
  /\ End(w)
  /\ UNCHANGED <<rqm, matched, sheets, history>>

----
(* The shared client: login is two steps, with requests of others between. *)

Step(w, i, at) == threads' = [threads EXCEPT ![w][i].at = at]

FirstCall(w) == IF job[w].at = "create" THEN "post_script" ELSE "get_case"

\* RQM may give the session a new cookie; the header still has the old one.
Login(w, i) ==
  /\ At(w, i) = "login"
  /\ matched' \in {matched, FALSE}
  /\ Step(w, i, "header")
  /\ UNCHANGED <<rqm, caches, job, history>>

\* A status other than 200: login returns False, which no caller looks at.
LoginRefused(w, i) ==
  /\ At(w, i) = "login" /\ Fault("login")
  /\ Step(w, i, FirstCall(w))
  /\ UNCHANGED <<rqm, matched, caches, job, requests, overlap>>

\* The project is found: the header gets the cookie of the moment.
SetHeader(w, i) ==
  /\ At(w, i) = "header"
  /\ matched' = TRUE
  /\ Step(w, i, FirstCall(w))
  /\ UNCHANGED <<rqm, caches, job, history>>

\* An exception before a call has done anything: no connection, no project,
\* keys that are not correct, an answer that is not XML.
Raise(w, i) ==
  /\ At(w, i) \notin Ended \cup {"none"} /\ Fault("raise")
  /\ IF job[w].at = "create"
       THEN Step(w, i, "raised") /\ UNCHANGED job
       ELSE End(w)
  /\ UNCHANGED <<rqm, matched, caches, requests, overlap>>

----
(* create: the documents of a list in parallel, a single one alike. *)

DocLists == UNION {[1..n -> Docs] : n \in 1..MaxItems}

Create(w) ==
  \E docs \in DocLists :
    Begin(w, [Idle EXCEPT !.at = "create"], [i \in DOMAIN docs |-> NewThread(docs[i])])

\* The web id RQM gives to the next of these resources.
NewId(resources) == Len(resources) + 1

PostScript(w, i) ==
  LET t == threads[w][i]
  IN /\ At(w, i) = "post_script" /\ matched
     /\ scripts' = Append(scripts, TestscriptTemplate(t.doc))
     /\ threads' = [threads EXCEPT ![w][i] =
                      [t EXCEPT !.at = "post_case", !.script = NewId(scripts)]]
     /\ UNCHANGED <<cases, matched, caches, job, history>>

\* Mutated form: the test case links to the most recent script.
PostCaseOfLatest(w, i) ==
  LET t == threads[w][i]
  IN /\ At(w, i) = "post_case" /\ matched
     /\ cases' = Append(cases, TestcaseTemplate(t.doc, Len(scripts)))
     /\ threads' = [threads EXCEPT ![w][i] = [t EXCEPT !.at = "made", !.id = NewId(cases)]]
     /\ UNCHANGED <<scripts, matched, caches, job, history>>

PostCase(w, i) ==
  LET t == threads[w][i]
  IN /\ At(w, i) = "post_case" /\ matched
     /\ cases' = Append(cases, TestcaseTemplate(t.doc, t.script))
     /\ threads' = [threads EXCEPT ![w][i] = [t EXCEPT !.at = "made", !.id = NewId(cases)]]
     /\ UNCHANGED <<scripts, matched, caches, job, history>>

Posting(w, i) == At(w, i) \in {"post_script", "post_case"}

\* Mutated form: the test case is created whether or not the script was.
RefusedScriptIgnored(w, i) ==
  /\ Posting(w, i)
  /\ IF matched THEN Fault("refuse") ELSE UNCHANGED faults
  /\ Step(w, i, IF threads[w][i].at = "post_script" THEN "post_case" ELSE "failed")
  /\ UNCHANGED <<rqm, matched, caches, job, requests, overlap>>

\* No header yet, or one of a session that is gone, or another refusal.
PostRefused(w, i) ==
  /\ Posting(w, i)
  /\ IF matched THEN Fault("refuse") ELSE UNCHANGED faults
  /\ Step(w, i, "failed")
  /\ UNCHANGED <<rqm, matched, caches, job, requests, overlap>>

\* The resource is there, but its id is not: the connection breaks, or the id
\* cannot be read.
PostLost(w, i) ==
  LET t == threads[w][i]
  IN /\ Posting(w, i) /\ matched /\ Fault("lost")
     /\ IF t.at = "post_script"
          THEN scripts' = Append(scripts, TestscriptTemplate(t.doc)) /\ UNCHANGED cases
          ELSE cases' = Append(cases, TestcaseTemplate(t.doc, t.script)) /\ UNCHANGED scripts
     /\ \E outcome \in {"failed", "raised"} : Step(w, i, outcome)
     /\ UNCHANGED <<matched, caches, job, requests, overlap>>

\* All threads are joined; one exception loses the results of the others.
Collect(w) ==
  /\ job[w].at = "create" /\ \A i \in DOMAIN threads[w] : threads[w][i].at \in Ended
  /\ IF listing = None \/ \E i \in DOMAIN threads[w] : threads[w][i].at = "raised"
       THEN End(w)
       ELSE GoWith(w, "append", listing) /\ UNCHANGED threads
  /\ UNCHANGED <<rqm, matched, caches, history>>

EntriesFor(ts) == [k \in DOMAIN ts |-> [id |-> ts[k].id, name |-> ts[k].doc]]
Extended(got, ts) ==
  [got EXCEPT !.entries = @ \o EntriesFor(ts), !.number = @ + Len(ts)]

\* Mutated form: every document is added to the listing.
StoreAll(w) ==
  /\ job[w].at = "append"
  /\ listing' = Extended(job[w].got, threads[w])
  /\ End(w)
  /\ UNCHANGED <<rqm, matched, sheets, history>>

\* The threads whose test case was created.
Made(ts) == Select(ts, {i \in DOMAIN ts : ts[i].at = "made"})

\* The copy of the listing goes back with the new test cases at its end.
StoreAppended(w) ==
  /\ job[w].at = "append"
  /\ listing' = Extended(job[w].got, Made(threads[w]))
  /\ End(w)
  /\ UNCHANGED <<rqm, matched, sheets, history>>

----
(* retrieve and update: a login, then calls with the request's own copy. *)

Retrieve(w) ==
  \E id \in DOMAIN cases :
    /\ sheets[id] = None
    /\ Begin(w, [Idle EXCEPT !.at = "retrieve", !.id = id], <<NewThread(None)>>)

Update(w) ==
  \E id \in DOMAIN cases, doc \in Docs :
    Begin(w, [Idle EXCEPT !.at = "update", !.id = id], <<NewThread(doc)>>)

\* retrieve keeps the title, and both the script it has to go on with.
GetCase(w) ==
  LET t == threads[w][1]
      case == cases[job[w].id]
  IN /\ At(w, 1) = "get_case"
     /\ threads' = [threads EXCEPT ![w][1] =
          IF job[w].at = "retrieve"
            THEN [t EXCEPT !.script = case.script, !.doc = case.title, !.at = "get_script"]
            ELSE [t EXCEPT !.script = case.script, !.at = "put_case"]]
     /\ UNCHANGED <<rqm, matched, caches, job, history>>

GetScript(w) ==
  LET t == threads[w][1]
  IN /\ At(w, 1) = "get_script"
     /\ GoWith(w, "sheet", [title |-> t.doc, steps |-> scripts[t.script].steps])
     /\ Step(w, 1, "made")
     /\ UNCHANGED <<rqm, matched, caches, history>>

StoreSheet(w) ==
  /\ job[w].at = "sheet"
  /\ sheets' = [sheets EXCEPT ![job[w].id] = job[w].got]
  /\ End(w)
  /\ UNCHANGED <<rqm, matched, listing, history>>

\* The two PUTs; no one looks at what RQM answers.  The first sends back the
\* whole test case that was read, of which only the title is modelled.
PutCase(w) ==
  /\ At(w, 1) = "put_case"
  /\ \/ /\ cases' = [cases EXCEPT ![job[w].id].title = threads[w][1].doc]
        /\ UNCHANGED faults
     \/ Fault("refuse") /\ UNCHANGED cases
  /\ Step(w, 1, "put_script")
  /\ UNCHANGED <<scripts, matched, caches, job, requests, overlap>>

PutScript(w) ==
  LET t == threads[w][1]
  IN /\ At(w, 1) = "put_script"
     /\ \/ /\ scripts' = [scripts EXCEPT ![t.script] = TestscriptTemplate(t.doc)]
           /\ UNCHANGED faults
        \/ Fault("refuse") /\ UNCHANGED scripts
     /\ Step(w, 1, "made")
     /\ Goto(w, "restore")
     /\ UNCHANGED <<cases, matched, caches, requests, overlap>>

\* The second PUT is done, but its answer does not come: no cache is touched.
PutLost(w) ==
  LET t == threads[w][1]
  IN /\ At(w, 1) = "put_script" /\ Fault("lost")
     /\ scripts' = [scripts EXCEPT ![t.script] = TestscriptTemplate(t.doc)]
     /\ End(w)
     /\ UNCHANGED <<cases, matched, caches, requests, overlap>>

\* "restore testscript cache": with the body of the request.
StoreUpdate(w) ==
  LET doc == threads[w][1].doc
  IN /\ job[w].at = "restore"
     /\ sheets' = [sheets EXCEPT ![job[w].id] = [title |-> doc, steps |-> doc]]
     /\ Goto(w, "reread")
     /\ UNCHANGED <<rqm, matched, listing, threads, history>>

ReadListing(w) ==
  /\ job[w].at = "reread"
  /\ IF listing = None THEN End(w) ELSE GoWith(w, "rename", listing) /\ UNCHANGED threads
  /\ UNCHANGED <<rqm, matched, caches, history>>

\* Mutated form: the listing keeps the old title.
StoreUnrenamed(w) ==
  /\ job[w].at = "rename"
  /\ listing' = job[w].got
  /\ End(w)
  /\ UNCHANGED <<rqm, matched, sheets, history>>

\* The first entry with the id gets the new title.
StoreRenamed(w) ==
  LET got == job[w].got
      k == SelectInSeq(got.entries, LAMBDA e : e.id = job[w].id)
  IN /\ job[w].at = "rename"
     /\ listing' = IF k = 0 THEN got
                            ELSE [got EXCEPT !.entries[k].name = threads[w][1].doc]
     /\ End(w)
     /\ UNCHANGED <<rqm, matched, sheets, history>>

----

\* After 4 hours and after 24, or when Redis is restarted.
Expire ==
  /\ \/ listing # None /\ listing' = None /\ UNCHANGED sheets
     \/ \E id \in CaseIds :
          /\ sheets[id] # None /\ sheets' = [sheets EXCEPT ![id] = None]
          /\ UNCHANGED listing
  /\ UNCHANGED <<rqm, matched, job, threads, history>>

ThreadStep(w, i) ==
  \/ Login(w, i) \/ LoginRefused(w, i) \/ SetHeader(w, i) \/ Raise(w, i)
  \/ PostScript(w, i) \/ PostCase(w, i) \/ PostRefused(w, i) \/ PostLost(w, i)

RequestStep(w) ==
  \/ List(w) \/ FetchPage(w) \/ FetchFails(w) \/ StoreListing(w)
  \/ Create(w) \/ Collect(w) \/ StoreAppended(w)
  \/ Retrieve(w) \/ Update(w) \/ GetCase(w) \/ GetScript(w) \/ StoreSheet(w)
  \/ PutCase(w) \/ PutScript(w) \/ PutLost(w)
  \/ StoreUpdate(w) \/ ReadListing(w) \/ StoreRenamed(w)

Next ==
  \/ \E w \in Workers : RequestStep(w)
  \/ \E w \in Workers, i \in 1..MaxItems : ThreadStep(w, i)
  \/ Expire

Spec == Init /\ [][Next]_vars

----
(* Properties. *)

TypeOK ==
  /\ cases \in Seq([title: Docs, script: Nat \ {0}])
  /\ scripts \in Seq([steps: Docs])
  /\ matched \in BOOLEAN /\ overlap \in BOOLEAN
  /\ requests \in 0..MaxRequests /\ faults \in 0..MaxFaults
  /\ listing \in {None} \cup Listing
  /\ sheets \in [CaseIds -> {None} \cup Sheet]
  /\ job \in [Workers -> Job]
  /\ threads \in [Workers -> Seq(Thread)]

\* However requests interleave and whatever RQM refuses or loses, the cached
\* listing names test cases that exist on RQM, and counts them right.
ListedExist ==
  listing # None =>
    /\ \A k \in DOMAIN listing.entries : listing.entries[k].id \in DOMAIN cases
    /\ listing.number = Len(listing.entries)

\* Creations run in parallel on one client, and may fail half way: every test
\* case on RQM still links to a script that exists and is no other one's.
OwnScript ==
  /\ \A c \in DOMAIN cases : cases[c].script \in DOMAIN scripts
  /\ \A c, d \in DOMAIN cases : cases[c].script = cases[d].script => c = d

AllIdle == \A w \in Workers : job[w].at = "idle"

SheetsTrue ==
  \A id \in DOMAIN cases :
    sheets[id] # None =>
      sheets[id] = [title |-> cases[id].title, steps |-> scripts[cases[id].script].steps]
ListingTrue ==
  listing # None =>
    /\ ToSet(listing.entries) = {[id |-> c, name |-> cases[c].title] : c \in DOMAIN cases}
    /\ Len(listing.entries) = Len(cases)

\* As long as no call to RQM has failed and no two requests overlapped, the
\* caches agree with RQM between requests, through any sequence of bulk
\* creations, updates, listings and expiries.
CachesTrue == (faults = 0 /\ ~overlap /\ AllIdle) => SheetsTrue /\ ListingTrue

\* After an update the cached sheet is what RQM holds ("restore testscript
\* cache"), even if RQM refused the update.
SheetRestored == AllIdle => SheetsTrue
====
