---- MODULE Artifactory ----
(***************************************************************************)
(* The Artifactory tool (artifactory_helper.py): get_latest_version, which *)
(* lists the repository three times to find the newest package, and        *)
(* multithread_download, which fetches a file in pages, one thread each,   *)
(* all writing to one file object under a lock.                            *)
(*                                                                         *)
(* A byte of the source is its own position, so a byte of the local file   *)
(* is right iff it holds its own position; a position that was never       *)
(* written is missing from the domain of file.                             *)
(***************************************************************************)
EXTENDS Integers, Sequences, FiniteSets, FiniteSetsExt

CONSTANTS
  ThreadsNum,  \* threads_num
  ChunkSize,   \* bytes of a body that arrive together
  Sizes,       \* the sizes of files
  Packs,       \* packages: <<year, week, pack>>
  FirstPacks,  \* those in the repository at the start
  Faults,      \* what may go wrong
  MaxCalls     \* bound: calls of the two methods

FaultKinds == {"exception", "cut", "error_page", "oserror", "interrupt"}
ASSUME ThreadsAssumption == ThreadsNum \in Nat \ {0} /\ ChunkSize \in Nat \ {0}
ASSUME InputsAssumption ==
  /\ Sizes \subseteq Nat /\ Faults \subseteq FaultKinds /\ MaxCalls \in Nat
  /\ Packs \subseteq Nat \X (Nat \ {0}) \X (Nat \ {0}) /\ FirstPacks \subseteq Packs
  /\ IsFiniteSet(FirstPacks)

VARIABLES
  main,     \* what the caller's thread is doing
  calls,    \* calls begun
  repo,     \* the packages in the repository
  known,    \* the packages when the scan began
  latest,   \* latest_year, latest_week, latest_pack
  size,     \* content_size
  next,     \* start_pos of the page dispatcher
  threads,  \* the download threads, in the order they were started
  holder,   \* the thread that holds file_lock, 0 when none
  filepos,  \* where the file object writes
  file,     \* what it has written: position -> byte
  exists,   \* the target file exists
  crash     \* crash_event

scan == <<repo, known, latest>>
disk == <<holder, filepos, file>>
download == <<size, next, threads, disk, exists, crash>>
vars == <<main, calls, scan, download>>

Junk == -1  \* a byte of an error page
Ends == {"found", "finished", "raised", "exited"}
\* sound is history: the server sent the page that was asked for, all of it,
\* and the disk took it.
Thread == [lo: Nat, last: Int, pos: Nat, from: Int, left: Nat, data: Nat, sound: BOOLEAN,
           state: {"request", "read", "lock", "write", "done"}]

Init ==
  /\ main = "idle" /\ calls = 0
  /\ repo = FirstPacks /\ known = {} /\ latest = <<2021, 1, 1>>
  /\ size = 0 /\ next = 0 /\ threads = << >>
  /\ holder = 0 /\ filepos = 0 /\ file = << >> /\ exists = FALSE /\ crash = FALSE

----
(* get_latest_version: three listings, each narrowed by the one before. *)

\* Someone adds a package between the listings.
Publish(p) ==
  /\ main \in {"week", "pack"}
  /\ p \notin repo /\ repo' = repo \cup {p}
  /\ UNCHANGED <<main, calls, known, latest, download>>

\* The loop keeps the largest number it meets, if that is above the default.
Above(S, default) == Max(S \cup {default})

FindYear ==
  /\ main = "idle" /\ calls < MaxCalls
  /\ calls' = calls + 1
  /\ known' = repo
  /\ latest' = <<Above({p[1] : p \in repo}, 2021), 1, 1>>
  /\ main' = "week"
  /\ UNCHANGED <<repo, download>>

\* Mutated form: the weeks of every year.
FindWeekOfAnyYear ==
  /\ main = "week"
  /\ latest' = [latest EXCEPT ![2] = Above({p[2] : p \in repo}, 1)]
  /\ main' = "pack"
  /\ UNCHANGED <<calls, repo, known, download>>

FindWeek ==
  /\ main = "week"
  /\ latest' = [latest EXCEPT
       ![2] = Above({p[2] : p \in {q \in repo : q[1] = latest[1]}}, 1)]
  /\ main' = "pack"
  /\ UNCHANGED <<calls, repo, known, download>>

FindPack ==
  /\ main = "pack"
  /\ latest' = [latest EXCEPT
       ![3] = Above({p[3] : p \in {q \in repo : q[1] = latest[1] /\ q[2] = latest[2]}}, 1)]
  /\ main' = "found"
  /\ UNCHANGED <<calls, repo, known, download>>

----
(* multithread_download: the caller's thread. *)

\* "File exists, cancel download"; otherwise the size is asked for, which may
\* fail, and the file is opened.
Start ==
  /\ main = "idle" /\ calls < MaxCalls
  /\ calls' = calls + 1
  /\ UNCHANGED scan
  /\ \/ exists /\ main' = "exited" /\ UNCHANGED download
     \/ "exception" \in Faults /\ ~exists /\ main' = "raised" /\ UNCHANGED download
     \/ /\ ~exists /\ exists' = TRUE
        /\ main' = "dispatch"
        /\ size' \in Sizes
        /\ UNCHANGED <<next, threads, disk, crash>>

BasicPageSize == size \div ThreadsNum
NewThread(lo, last) ==
  [lo |-> lo, last |-> last, pos |-> lo, from |-> lo, left |-> 0, data |-> 0,
   sound |-> TRUE, state |-> "request"]

\* Mutated form: end_pos is taken for exclusive, and one byte too many skipped.
DispatchSkips ==
  /\ main = "dispatch" /\ next + BasicPageSize < size
  /\ threads' = Append(threads, NewThread(next, next + BasicPageSize))
  /\ next' = next + BasicPageSize + 2
  /\ UNCHANGED <<main, calls, scan, size, disk, exists, crash>>

\* One round of the dispatcher's loop; end_pos is inclusive.
Dispatch ==
  /\ main = "dispatch" /\ next + BasicPageSize < size
  /\ threads' = Append(threads, NewThread(next, next + BasicPageSize))
  /\ next' = next + BasicPageSize + 1
  /\ UNCHANGED <<main, calls, scan, size, disk, exists, crash>>

\* "the last part remained"
DispatchLast ==
  /\ main = "dispatch" /\ next + BasicPageSize >= size
  /\ threads' = Append(threads, NewThread(next, size - 1))
  /\ main' = "join"
  /\ UNCHANGED <<calls, scan, size, next, disk, exists, crash>>

AllDone == \A i \in DOMAIN threads : threads[i].state = "done"

Join ==
  /\ main = "join" /\ AllDone
  /\ main' = IF crash THEN "raised" ELSE "finished"
  /\ UNCHANGED <<calls, scan, download>>

\* Ctrl-C: the file is closed under the threads, which fail on it.
Interrupt ==
  /\ "interrupt" \in Faults /\ main = "join"
  /\ main' = "exited"
  /\ threads' = [i \in DOMAIN threads |-> [threads[i] EXCEPT !.state = "done"]]
  /\ holder' = 0
  /\ UNCHANGED <<calls, scan, size, next, filepos, file, exists, crash>>

\* The caller has its answer, and may call again: the next call starts with
\* variables, a downloader and a file object of its own.
Leave ==
  /\ main \in Ends /\ main' = "idle"
  /\ known' = {} /\ latest' = <<2021, 1, 1>>
  /\ size' = 0 /\ next' = 0 /\ threads' = << >>
  /\ holder' = 0 /\ filepos' = 0 /\ file' = << >> /\ crash' = FALSE
  /\ UNCHANGED <<calls, repo, exists>>

----
(* A download thread. *)

\* A page is longer than size / ThreadsNum: only the last one can be one more.
MaxThreads == ThreadsNum + 1
At(i) == IF i \in DOMAIN threads THEN threads[i].state ELSE "none"
Set(i, t) == threads' = [threads EXCEPT ![i] = t]
caller == <<main, calls, scan, size, next, exists>>

\* The server sends the page, or everything when the range makes no sense.
Respond(i) ==
  LET t == threads[i]
  IN /\ At(i) = "request"
     /\ Set(i, IF t.lo <= t.last
                  THEN [t EXCEPT !.state = "read", !.from = t.lo, !.left = t.last - t.lo + 1]
                  ELSE [t EXCEPT !.state = "read", !.from = 0, !.left = size])
     /\ UNCHANGED <<caller, disk, crash>>

\* An error page: no one looks at the status.
RespondError(i) ==
  /\ "error_page" \in Faults /\ At(i) = "request"
  /\ Set(i, [threads[i] EXCEPT !.state = "read", !.from = Junk, !.left = 1, !.sound = FALSE])
  /\ UNCHANGED <<caller, disk, crash>>

\* A RequestException: no connection, a timeout, a broken chunk.
Fail(i) ==
  /\ "exception" \in Faults /\ At(i) \in {"request", "read"}
  /\ Set(i, [threads[i] EXCEPT !.state = "done"])
  /\ crash' = TRUE
  /\ UNCHANGED <<caller, disk>>

\* iter_content hands out the next chunk, or the body is at its end.
Read(i) ==
  LET t == threads[i]
  IN /\ At(i) = "read"
     /\ Set(i, IF t.left = 0 THEN [t EXCEPT !.state = "done"]
                ELSE [t EXCEPT !.state = "lock", !.data = Min({ChunkSize, t.left})])
     /\ UNCHANGED <<caller, disk, crash>>

\* The connection closes early: requests 2.28 takes that for the end.
Cut(i) ==
  /\ "cut" \in Faults /\ At(i) = "read" /\ threads[i].left > 0
  /\ Set(i, [threads[i] EXCEPT !.state = "done", !.sound = FALSE])
  /\ UNCHANGED <<caller, disk, crash>>

\* Mutated form: the lock is not waited for.
SeekUnlocked(i) ==
  /\ At(i) = "lock"
  /\ holder' = i
  /\ filepos' = threads[i].pos
  /\ Set(i, [threads[i] EXCEPT !.state = "write"])
  /\ UNCHANGED <<caller, file, crash>>

Seek(i) ==
  /\ At(i) = "lock" /\ holder = 0
  /\ holder' = i
  /\ filepos' = threads[i].pos
  /\ Set(i, [threads[i] EXCEPT !.state = "write"])
  /\ UNCHANGED <<caller, file, crash>>

\* The byte of the body that goes to position p.
ByteAt(t, p) == IF t.from = Junk THEN Junk ELSE t.from + (p - filepos)

WriteData(i) ==
  LET t == threads[i]
      written == filepos .. filepos + t.data - 1
  IN /\ At(i) = "write"
     /\ file' = [p \in DOMAIN file \cup written |->
                   IF p \in written THEN ByteAt(t, p) ELSE file[p]]
     /\ filepos' = filepos + t.data
     /\ holder' = 0
     /\ Set(i, [t EXCEPT !.state = "read", !.pos = @ + t.data, !.left = @ - t.data,
                          !.from = IF @ = Junk THEN Junk ELSE @ + t.data])
     /\ UNCHANGED <<caller, crash>>

\* Mutated form: the lock is not given back.
WriteFailsLocked(i) ==
  /\ "oserror" \in Faults /\ At(i) = "write"
  /\ Set(i, [threads[i] EXCEPT !.state = "done", !.sound = FALSE])
  /\ UNCHANGED <<caller, disk, crash>>

\* The disk is full: the thread dies of an exception no one catches.
WriteFails(i) ==
  /\ "oserror" \in Faults /\ At(i) = "write"
  /\ holder' = 0
  /\ Set(i, [threads[i] EXCEPT !.state = "done", !.sound = FALSE])
  /\ UNCHANGED <<caller, filepos, file, crash>>

ThreadStep(i) ==
  \/ Respond(i) \/ RespondError(i) \/ Fail(i) \/ Read(i) \/ Cut(i)
  \/ Seek(i) \/ WriteData(i) \/ WriteFails(i)
Dispatching == Dispatch \/ DispatchLast

Next ==
  \/ FindYear \/ FindWeek \/ FindPack \/ \E p \in Packs : Publish(p)
  \/ Start \/ Dispatching \/ Join \/ Interrupt \/ Leave
  \/ \E i \in 1..MaxThreads : ThreadStep(i)

\* The dispatcher and the threads run on: every request has a timeout, and the
\* lock, held for one write at a time, comes to every thread that waits for it.
Fairness ==
  /\ WF_vars(Dispatching) /\ WF_vars(Join)
  /\ \A i \in 1..MaxThreads : WF_vars(ThreadStep(i)) /\ SF_vars(Seek(i))

Spec == Init /\ [][Next]_vars
FairSpec == Spec /\ Fairness

----
(* Properties. *)

TypeOK ==
  /\ main \in Ends \cup {"idle", "week", "pack", "dispatch", "join"}
  /\ calls \in 0..MaxCalls
  /\ repo \subseteq Packs /\ known \subseteq repo
  /\ latest \in Nat \X (Nat \ {0}) \X (Nat \ {0})
  /\ size \in Sizes \cup {0} /\ next \in 0..size
  /\ threads \in Seq(Thread)
  /\ holder \in 0..Len(threads) /\ filepos \in Nat
  /\ DOMAIN file \subseteq Nat /\ \A p \in DOMAIN file : file[p] \in Nat \cup {Junk}
  /\ exists \in BOOLEAN /\ crash \in BOOLEAN

Newer(p, q) ==
  \/ p[1] > q[1]
  \/ p[1] = q[1] /\ (p[2] > q[2] \/ (p[2] = q[2] /\ p[3] > q[3]))

\* get_latest_version composes its answer from three listings: it still names
\* a package that exists, and none that existed when the scan began is newer,
\* whatever is published between the listings (if there is a package of 2021
\* or later, the defaults of the code).
LatestIsNewest ==
  (main = "found" /\ \E p \in known : p[1] >= 2021) =>
    /\ latest \in repo
    /\ \A p \in known : ~Newer(p, latest)

AllSound == \A i \in DOMAIN threads : threads[i].sound
\* Pages of equal length end exactly at the end of the file: "the last part
\* remained" is empty, its range makes no sense, and all is sent once more.
LastIsEmpty(s) == s # 0 /\ \E k \in 0..s : s = k * (s \div ThreadsNum + 1)

\* When the download says it is finished, the threads have put every byte of
\* the source in its place, and no other: unless the size is one for which
\* the last page is empty, or a response was not what was asked for or the
\* disk failed, which nothing in the code notices.
FinishedIsWhole ==
  main = "finished" /\ AllSound /\ ~LastIsEmpty(size) =>
    /\ DOMAIN file = 0 .. size - 1
    /\ \A p \in DOMAIN file : file[p] = p

\* A download ends, whichever of its threads fail and wherever: none is left
\* waiting for the lock.
DownloadEnds == main = "dispatch" ~> main \in Ends
====
