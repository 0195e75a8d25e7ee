---- MODULE ArtifactoryProofs ----
(***************************************************************************)
(* A download that says it is finished is the whole file, for every size,  *)
(* every number of threads and every order in which they read and write;   *)
(* and the package get_latest_version names is the newest one.             *)
(*                                                                         *)
(* FinishedIsWhole is about the end; Pages says what the dispatcher has    *)
(* handed out so far, Threads what each thread has put in its place, and   *)
(* OneWrites that nobody moves the file object between a seek and a write. *)
(***************************************************************************)
EXTENDS Artifactory, SequenceTheorems, FiniteSetTheorems, NaturalsInduction, TLAPS

----
(* The invariant of a download. *)

Step == BasicPageSize + 1
Idle == {"idle", "week", "pack", "found"}

\* Between downloads there is none.
NoneYet ==
  main \in Idle =>
    /\ size = 0 /\ next = 0 /\ threads = << >> /\ holder = 0
    /\ filepos = 0 /\ file = << >> /\ crash = FALSE

\* Every byte below b is in some thread's page.
Covered(b) ==
  \A p \in 0 .. b - 1 : \E i \in DOMAIN threads : threads[i].lo <= p /\ p <= threads[i].last

Pages ==
  /\ next \in 0..size
  /\ main = "dispatch" => next = Len(threads) * Step /\ Covered(next)
  /\ main \in {"join", "finished"} => Covered(size)
  /\ \A i \in DOMAIN threads :
       /\ threads[i].lo - 1 <= threads[i].last /\ threads[i].last < size
       /\ LastIsEmpty(size) \/ size = 0 \/ threads[i].lo <= threads[i].last

\* What a thread was sent and has not written comes next in its page.
Sent(t) == t.from = t.pos /\ t.left = t.last - t.pos + 1

ThreadFine(t) ==
  /\ t.from \in Nat \cup {Junk}
  /\ t.lo <= t.pos
  /\ t.state = "request" => t.pos = t.lo
  /\ t.state \in {"lock", "write"} => t.data <= t.left
  /\ t.sound /\ ~LastIsEmpty(size) =>
       /\ t.state \in {"read", "lock", "write"} => Sent(t)
       /\ t.state = "done" /\ ~crash /\ main # "exited" => t.pos = t.last + 1

Threads ==
  \A i \in DOMAIN threads :
    /\ ThreadFine(threads[i])
    /\ \A p \in threads[i].lo .. threads[i].pos - 1 : p \in DOMAIN file

OneWrites ==
  \A i \in DOMAIN threads :
    /\ threads[i].state = "write" <=> holder = i
    /\ holder = i => filepos = threads[i].pos

InPlace ==
  AllSound /\ ~LastIsEmpty(size) => \A p \in DOMAIN file : file[p] = p /\ p < size

TypesOfDownload ==
  /\ main \in Ends \cup {"idle", "week", "pack", "dispatch", "join"}
  /\ calls \in 0..MaxCalls
  /\ size \in Sizes \cup {0} /\ size \in Nat
  /\ threads \in Seq(Thread)
  /\ holder \in 0..Len(threads) /\ filepos \in Nat
  /\ DOMAIN file \subseteq Nat /\ \A p \in DOMAIN file : file[p] \in Nat \cup {Junk}
  /\ exists \in BOOLEAN /\ crash \in BOOLEAN

Ended == main = "finished" => AllDone /\ ~crash

DownloadInv ==
  TypesOfDownload /\ NoneYet /\ Pages /\ Threads /\ OneWrites /\ InPlace /\ Ended

----
(* Arithmetic and sequences. *)

LEMMA Division == ASSUME NEW a \in Nat, NEW b \in Nat \ {0} PROVE a \div b \in Nat
OBVIOUS

\* One more page.
LEMMA Multiple ==
  ASSUME NEW a \in Nat \ {0}, NEW k \in Nat
  PROVE  0 * a = 0 /\ (k + 1) * a = k * a + a /\ k * a \in Nat /\ k <= k * a
OBVIOUS

\* A page is at least one byte long.
LEMMA PageSize ==
  ASSUME TypesOfDownload
  PROVE  BasicPageSize \in Nat /\ Step \in Nat \ {0}
BY ThreadsAssumption DEF TypesOfDownload, BasicPageSize, Step

\* The smaller of two numbers is one of them.
LEMMA MinOfTwo ==
  ASSUME NEW a \in Nat, NEW b \in Nat
  PROVE  Min({a, b}) \in Nat /\ Min({a, b}) <= a /\ Min({a, b}) <= b
<1>1. \E x \in {a, b} : \A y \in {a, b} : x =< y
  <2>1. CASE a =< b
    BY <2>1
  <2>2. CASE b =< a
    BY <2>2
  <2> QED BY <2>1, <2>2
<1> QED BY <1>1 DEF Min

\* One thread moves on; the others are as they were.
LEMMA Changed ==
  ASSUME TypesOfDownload, NEW i \in DOMAIN threads, NEW u \in Thread, Set(i, u)
  PROVE  /\ threads' \in Seq(Thread) /\ DOMAIN threads' = DOMAIN threads
         /\ Len(threads') = Len(threads) /\ threads'[i] = u
         /\ \A j \in DOMAIN threads : j # i => threads'[j] = threads[j]
         /\ \A j \in DOMAIN threads : threads[j] \in Thread /\ j \in 1 .. Len(threads)
BY DEF TypesOfDownload, Set

\* What the types say of a thread.
LEMMA ThreadTypes ==
  ASSUME TypesOfDownload, NEW i \in DOMAIN threads
  PROVE  threads[i] \in Thread /\ i \in Nat \ {0} /\ i \in 1 .. Len(threads)
BY DEF TypesOfDownload

----
(* The steps of a thread. *)

\* A step in which a thread writes nothing: what holds of it after the step is
\* assumed, and the lock is taken, given back or left alone.
LEMMA QuietStep ==
  ASSUME DownloadInv, NEW i \in DOMAIN threads, NEW u \in Thread, Set(i, u),
         UNCHANGED <<main, calls, size, next, exists, file>>,
         u.lo = threads[i].lo, u.last = threads[i].last, u.pos = threads[i].pos,
         u.sound => threads[i].sound, u.state # "request", threads[i].state # "done",
         u.from \in Nat \cup {Junk},
         u.state \in {"lock", "write"} => u.data <= u.left,
         u.sound /\ ~LastIsEmpty(size) =>
           /\ u.state \in {"read", "lock", "write"} => Sent(u)
           /\ u.state = "done" /\ ~crash' => u.pos = u.last + 1,
         crash' \in BOOLEAN, crash => crash',
         \/ /\ UNCHANGED <<holder, filepos>>
            /\ u.state = "write" <=> threads[i].state = "write"
         \/ /\ holder = 0 /\ holder' = i /\ filepos' = u.pos /\ u.state = "write"
         \/ /\ holder = i /\ holder' = 0 /\ filepos' = filepos /\ u.state # "write"
  PROVE  DownloadInv'
<1>1. /\ threads' \in Seq(Thread) /\ DOMAIN threads' = DOMAIN threads
      /\ Len(threads') = Len(threads) /\ threads'[i] = u
      /\ \A j \in DOMAIN threads : j # i => threads'[j] = threads[j]
      /\ \A j \in DOMAIN threads : threads[j] \in Thread /\ j \in 1 .. Len(threads)
  BY Changed DEF DownloadInv
<1>2. TypesOfDownload'
  <2>1. holder' \in 0 .. Len(threads') /\ filepos' \in Nat
    <3>1. i \in 1 .. Len(threads) /\ Len(threads') = Len(threads) /\ threads[i].pos \in Nat
      BY <1>1 DEF Thread
    <3>2. holder \in 0 .. Len(threads) /\ filepos \in Nat
      BY DEF DownloadInv, TypesOfDownload
    <3> QED BY <3>1, <3>2
  <2> QED BY <1>1, <2>1 DEF DownloadInv, TypesOfDownload
<1>3. NoneYet'
  BY <1>1 DEF DownloadInv, NoneYet
<1>4. Pages'
  <2>1. \A j \in DOMAIN threads :
          threads'[j].lo = threads[j].lo /\ threads'[j].last = threads[j].last
    BY <1>1
  <2>2. \A b \in Nat : Covered(b) => Covered(b)'
    BY <1>1, <2>1 DEF Covered
  <2>3. UNCHANGED <<Step, LastIsEmpty(size)>> /\ size \in Nat /\ next \in Nat
    BY DEF Step, BasicPageSize, LastIsEmpty, DownloadInv, Pages, TypesOfDownload
  <2> QED BY <1>1, <2>1, <2>2, <2>3 DEF DownloadInv, Pages, Covered
<1>5. Threads'
  <2>1. ThreadFine(u)' /\ \A p \in u.lo .. u.pos - 1 : p \in DOMAIN file'
    BY DEF DownloadInv, Threads, ThreadFine, LastIsEmpty, Sent
  <2>2. ASSUME NEW j \in DOMAIN threads, j # i
        PROVE  /\ ThreadFine(threads[j])'
               /\ \A p \in threads[j].lo .. threads[j].pos - 1 : p \in DOMAIN file'
    BY <1>1, <2>2 DEF DownloadInv, Threads, ThreadFine, LastIsEmpty, Sent
  <2> QED BY <1>1, <2>1, <2>2 DEF Threads
<1>6. OneWrites'
  BY <1>1 DEF DownloadInv, OneWrites, TypesOfDownload
<1>7. InPlace'
  <2>1. AllSound' => AllSound
    BY <1>1 DEF AllSound
  <2> QED BY <2>1 DEF DownloadInv, InPlace, LastIsEmpty
<1>8. Ended'
  BY DEF DownloadInv, Ended, AllDone
<1> QED BY <1>2, <1>3, <1>4, <1>5, <1>6, <1>7, <1>8 DEF DownloadInv

\* A thread that is sent n bytes from f on.
LEMMA Answered ==
  ASSUME NEW t \in Thread, NEW f \in Int, NEW n \in Nat
  PROVE  [t EXCEPT !.state = "read", !.from = f, !.left = n] \in Thread
BY DEF Thread

\* The server answers, with what was asked for or otherwise.
LEMMA RespondKeeps ==
  ASSUME DownloadInv, NEW i \in 1 .. MaxThreads, Respond(i) \/ RespondError(i)
  PROVE  DownloadInv'
<1> DEFINE t == threads[i]
<1>1. i \in DOMAIN threads /\ t.state = "request"
  BY DEF Respond, RespondError, At
<1>2. t \in Thread /\ ThreadFine(t) /\ t.last < size /\ size \in Nat
  BY <1>1, ThreadTypes DEF DownloadInv, Threads, Pages, TypesOfDownload
<1>0. UNCHANGED <<main, calls, size, next, exists, holder, filepos, file, crash>>
      /\ crash \in BOOLEAN
  BY DEF Respond, RespondError, caller, disk, DownloadInv, TypesOfDownload
<1>3. CASE Respond(i)
  <2>1. CASE t.lo <= t.last
    <3> DEFINE u == [t EXCEPT !.state = "read", !.from = t.lo, !.left = t.last - t.lo + 1]
    <3>1. Set(i, u)
      BY <1>3, <2>1 DEF Respond
    <3>2. /\ u \in Thread /\ Sent(u) /\ u.state = "read" /\ u.sound = t.sound
          /\ u.lo = t.lo /\ u.last = t.last /\ u.pos = t.pos /\ u.from \in Nat
      <4>1. t \in Thread /\ t.last - t.lo + 1 \in Nat /\ t.pos = t.lo /\ t.lo \in Nat
        BY <1>1, <1>2, <2>1 DEF Thread, ThreadFine
      <4>2. /\ u \in Thread /\ u.from = t.lo /\ u.left = t.last - t.lo + 1 /\ u.state = "read"
            /\ u.sound = t.sound /\ u.lo = t.lo /\ u.last = t.last /\ u.pos = t.pos
        <5>0. t.lo \in Int
          BY <4>1
        <5>1. u \in Thread
          BY <4>1, <5>0, Answered
        <5>2. u.from = t.lo /\ u.left = t.last - t.lo + 1 /\ u.state = "read"
          BY <4>1 DEF Thread
        <5>3. u.sound = t.sound /\ u.lo = t.lo /\ u.last = t.last /\ u.pos = t.pos
          BY <4>1 DEF Thread
        <5> QED BY <5>1, <5>2, <5>3
      <4> HIDE DEF u
      <4> QED BY <4>1, <4>2 DEF Sent
    <3> HIDE DEF u
    <3> QED BY <1>0, <1>1, <1>2, <3>1, <3>2, QuietStep
  <2>2. CASE ~(t.lo <= t.last)
    <3> DEFINE u == [t EXCEPT !.state = "read", !.from = 0, !.left = size]
    <3>1. Set(i, u)
      BY <1>3, <2>2 DEF Respond
    <3>2. /\ u \in Thread /\ u.state = "read" /\ u.sound = t.sound
          /\ u.lo = t.lo /\ u.last = t.last /\ u.pos = t.pos /\ u.from = 0 /\ u.left = size
      <4>1. t \in Thread /\ size \in Nat
        BY <1>2
      <4>2. u \in Thread
        BY <4>1, 0 \in Int, Answered
      <4>3. u.from = 0 /\ u.left = size /\ u.state = "read"
        BY <4>1 DEF Thread
      <4>4. u.sound = t.sound /\ u.lo = t.lo /\ u.last = t.last /\ u.pos = t.pos
        BY <4>1 DEF Thread
      <4> QED BY <4>2, <4>3, <4>4
    <3>3. ASSUME ~LastIsEmpty(size) PROVE Sent(u)
      <4>1. size = 0
        BY <1>1, <2>2, <3>3 DEF DownloadInv, Pages
      <4>2. t.lo = 0 /\ t.last = -1
        BY <1>1, <1>2, <2>2, <4>1 DEF DownloadInv, Pages, Thread
      <4> QED BY <1>1, <1>2, <3>2, <4>1, <4>2 DEF Thread, ThreadFine, Sent
    <3> HIDE DEF u
    <3> QED BY <1>0, <1>1, <1>2, <3>1, <3>2, <3>3, QuietStep
  <2> QED BY <2>1, <2>2
<1>4. CASE RespondError(i)
  <2> DEFINE u == [t EXCEPT !.state = "read", !.from = Junk, !.left = 1, !.sound = FALSE]
  <2>1. Set(i, u)
    BY <1>4 DEF RespondError
  <2>2. /\ u \in Thread /\ u.state = "read" /\ u.sound = FALSE /\ u.from = Junk
        /\ u.lo = t.lo /\ u.last = t.last /\ u.pos = t.pos
    <3>1. t \in Thread /\ Junk \in Int
      BY <1>2 DEF Junk
    <3>2. u \in Thread
      BY <3>1 DEF Thread
    <3> QED BY <3>1, <3>2 DEF Thread
  <2> HIDE DEF u
  <2> QED BY <1>0, <1>1, <1>2, <2>1, <2>2, QuietStep DEF Thread
<1> QED BY <1>3, <1>4

\* The page fails, is cut, or the disk refuses it: the thread is done.
LEMMA GiveUpKeeps ==
  ASSUME DownloadInv, NEW i \in 1 .. MaxThreads, Fail(i) \/ Cut(i) \/ WriteFails(i)
  PROVE  DownloadInv'
<1> DEFINE t == threads[i]
<1>1. i \in DOMAIN threads /\ t.state \in {"request", "read", "write"}
  BY DEF Fail, Cut, WriteFails, At
<1>2. t \in Thread /\ ThreadFine(t)
  BY <1>1, ThreadTypes DEF DownloadInv, Threads
<1>3. CASE Fail(i)
  <2> DEFINE u == [t EXCEPT !.state = "done"]
  <2>1. Set(i, u) /\ t.state # "write" /\ crash' = TRUE
    BY <1>3 DEF Fail, At
  <2>2. u \in Thread /\ u.state = "done" /\ u.sound = t.sound
    BY <1>2 DEF Thread
  <2> QED BY <1>1, <1>2, <1>3, <2>1, <2>2, QuietStep
          DEF Fail, caller, disk, Thread, ThreadFine, DownloadInv, TypesOfDownload
<1> DEFINE v == [t EXCEPT !.state = "done", !.sound = FALSE]
<1>4. v \in Thread /\ v.state = "done" /\ v.sound = FALSE
  BY <1>2 DEF Thread
<1>5. CASE Cut(i)
  <2>1. Set(i, v) /\ t.state = "read"
    BY <1>5 DEF Cut, At
  <2> QED BY <1>1, <1>2, <1>4, <1>5, <2>1, QuietStep
          DEF Cut, caller, disk, Thread, ThreadFine, DownloadInv, TypesOfDownload
<1>6. CASE WriteFails(i)
  <2>1. Set(i, v) /\ t.state = "write" /\ holder = i
    BY <1>1, <1>6 DEF WriteFails, At, DownloadInv, OneWrites
  <2> QED BY <1>1, <1>2, <1>4, <1>6, <2>1, QuietStep
          DEF WriteFails, caller, Thread, ThreadFine, DownloadInv, TypesOfDownload
<1> QED BY <1>3, <1>5, <1>6

\* The next chunk, or the end of the body: all of the page is written then.
LEMMA ReadKeeps ==
  ASSUME DownloadInv, NEW i \in 1 .. MaxThreads, Read(i)
  PROVE  DownloadInv'
<1> DEFINE t == threads[i]
<1>1. i \in DOMAIN threads /\ t.state = "read"
  BY DEF Read, At
<1>2. t \in Thread /\ ThreadFine(t)
  BY <1>1, ThreadTypes DEF DownloadInv, Threads
<1>3. CASE t.left = 0
  <2> DEFINE u == [t EXCEPT !.state = "done"]
  <2>1. Set(i, u)
    BY <1>3 DEF Read
  <2>2. u \in Thread /\ u.state = "done" /\ u.sound = t.sound
    BY <1>2 DEF Thread
  <2>3. u.sound /\ ~LastIsEmpty(size) => u.pos = u.last + 1
    BY <1>1, <1>2, <1>3 DEF ThreadFine, Sent, Thread
  <2> QED BY <1>1, <1>2, <2>1, <2>2, <2>3, QuietStep
          DEF Read, caller, disk, Thread, ThreadFine, DownloadInv, TypesOfDownload
<1>4. CASE t.left # 0
  <2> DEFINE u == [t EXCEPT !.state = "lock", !.data = Min({ChunkSize, t.left})]
  <2>1. Set(i, u)
    BY <1>4 DEF Read
  <2>2. u \in Thread /\ u.state = "lock" /\ u.sound = t.sound /\ u.data <= u.left
    BY <1>2, MinOfTwo, ThreadsAssumption DEF Thread
  <2>3. u.sound /\ ~LastIsEmpty(size) => Sent(u)
    BY <1>1, <1>2 DEF ThreadFine, Sent, Thread
  <2> QED BY <1>1, <1>2, <2>1, <2>2, <2>3, QuietStep
          DEF Read, caller, disk, Thread, ThreadFine, DownloadInv, TypesOfDownload
<1> QED BY <1>3, <1>4

\* A thread takes the lock and moves the file object to its place.
LEMMA SeekKeeps ==
  ASSUME DownloadInv, NEW i \in 1 .. MaxThreads, Seek(i)
  PROVE  DownloadInv'
<1> DEFINE t == threads[i]
           u == [t EXCEPT !.state = "write"]
<1>1. i \in DOMAIN threads /\ t.state = "lock"
  BY DEF Seek, At
<1>2. t \in Thread /\ ThreadFine(t)
  BY <1>1, ThreadTypes DEF DownloadInv, Threads
<1>3. Set(i, u) /\ holder = 0 /\ holder' = i /\ filepos' = t.pos
  BY DEF Seek
<1>4. /\ u \in Thread /\ u.state = "write" /\ u.sound = t.sound /\ u.data <= u.left
      /\ u.sound /\ ~LastIsEmpty(size) => Sent(u)
  BY <1>1, <1>2 DEF Thread, ThreadFine, Sent
<1> QED BY <1>1, <1>2, <1>3, <1>4, QuietStep
        DEF Seek, caller, Thread, ThreadFine, DownloadInv, TypesOfDownload

\* A thread writes behind what it has written, and gives the lock back.
LEMMA WriteKeeps ==
  ASSUME DownloadInv, NEW i \in 1 .. MaxThreads, WriteData(i)
  PROVE  DownloadInv'
<1> DEFINE t == threads[i]
           written == filepos .. filepos + t.data - 1
           f == IF t.from = Junk THEN Junk ELSE t.from + t.data
           u == [t EXCEPT !.state = "read", !.pos = @ + t.data, !.left = @ - t.data, !.from = f]
<1>1. i \in DOMAIN threads /\ t.state = "write" /\ holder = i /\ filepos = t.pos
  BY DEF WriteData, At, DownloadInv, OneWrites
<1>2. t \in Thread /\ ThreadFine(t) /\ i \in Nat \ {0} /\ t.last < size /\ size \in Nat
  BY <1>1, ThreadTypes DEF DownloadInv, Threads, Pages, TypesOfDownload
<1>3. /\ t.pos + t.data \in Nat /\ t.left - t.data \in Nat /\ f \in Int /\ f \in Nat \cup {Junk}
      /\ t.pos \in Nat /\ t.lo \in Nat /\ t.last \in Int /\ t.data \in Nat /\ t.left \in Nat
  BY <1>1, <1>2 DEF Thread, ThreadFine, Junk
<1>4. /\ u \in Thread
      /\ u.state = "read" /\ u.pos = t.pos + t.data /\ u.left = t.left - t.data /\ u.from = f
      /\ u.lo = t.lo /\ u.last = t.last /\ u.sound = t.sound
  <2> HIDE DEF f
  <2>1. u \in Thread
    BY <1>2, <1>3 DEF Thread
  <2>2. u.state = "read" /\ u.pos = t.pos + t.data /\ u.left = t.left - t.data /\ u.from = f
    BY <1>2 DEF Thread
  <2>3. u.lo = t.lo /\ u.last = t.last /\ u.sound = t.sound
    BY <1>2 DEF Thread
  <2> QED BY <2>1, <2>2, <2>3
<1>5. /\ Set(i, u) /\ holder' = 0 /\ filepos' = filepos + t.data
      /\ file' = [p \in DOMAIN file \cup written |->
                    IF p \in written THEN ByteAt(t, p) ELSE file[p]]
      /\ UNCHANGED <<main, calls, size, next, exists, crash>>
  BY DEF WriteData, caller
<1> HIDE DEF u
<1>6. /\ threads' \in Seq(Thread) /\ DOMAIN threads' = DOMAIN threads
      /\ Len(threads') = Len(threads) /\ threads'[i] = u
      /\ \A j \in DOMAIN threads : j # i => threads'[j] = threads[j]
      /\ \A j \in DOMAIN threads : threads[j] \in Thread /\ j \in 1 .. Len(threads)
  BY <1>1, <1>4, <1>5, Changed DEF DownloadInv
<1>7. /\ DOMAIN file' = DOMAIN file \cup written
      /\ \A p \in written : file'[p] = ByteAt(t, p)
      /\ \A p \in DOMAIN file : p \notin written => file'[p] = file[p]
  BY <1>5
<1>8. \A p \in written : p \in Nat /\ ByteAt(t, p) \in Nat \cup {Junk}
  BY <1>1, <1>2, <1>3 DEF ByteAt, ThreadFine, Thread
<1>9. t.sound /\ ~LastIsEmpty(size) => \A p \in written : ByteAt(t, p) = p /\ p < size
  BY <1>1, <1>2, <1>3 DEF ByteAt, ThreadFine, Sent, Junk
<1> HIDE DEF written
<1>10. TypesOfDownload'
  <2>1. holder' \in 0 .. Len(threads') /\ filepos' \in Nat
    BY <1>1, <1>3, <1>5, <1>6, LenProperties DEF DownloadInv, TypesOfDownload
  <2>2. DOMAIN file' \subseteq Nat /\ \A p \in DOMAIN file' : file'[p] \in Nat \cup {Junk}
    BY <1>7, <1>8 DEF DownloadInv, TypesOfDownload
  <2> QED BY <1>5, <1>6, <2>1, <2>2 DEF DownloadInv, TypesOfDownload
<1>11. NoneYet'
  <2>1. main \notin Idle
    BY <1>1, <1>2 DEF DownloadInv, NoneYet
  <2> QED BY <1>5, <2>1 DEF NoneYet
<1>12. Pages'
  <2>1. \A j \in DOMAIN threads :
          threads'[j].lo = threads[j].lo /\ threads'[j].last = threads[j].last
    BY <1>4, <1>6
  <2>2. UNCHANGED <<Step, LastIsEmpty(size)>> /\ size \in Nat /\ next \in Nat
    BY <1>5 DEF Step, BasicPageSize, LastIsEmpty, DownloadInv, Pages, TypesOfDownload
  <2> QED BY <1>5, <1>6, <2>1, <2>2 DEF DownloadInv, Pages, Covered
<1>13. Threads'
  <2>1. ThreadFine(threads[i])'
    <3>1. UNCHANGED <<LastIsEmpty(size), crash, main>>
      BY <1>5 DEF LastIsEmpty
    <3>2. f = IF t.from = Junk THEN Junk ELSE t.from + t.data
      OBVIOUS
    <3> HIDE DEF t, f
    <3>3. t.sound /\ ~LastIsEmpty(size) => Sent(u)
      BY <1>1, <1>2, <1>3, <1>4, <3>2 DEF ThreadFine, Sent, Junk
    <3>4. t.lo <= t.pos /\ t.data >= 0 /\ u.lo <= u.pos
      BY <1>2, <1>3, <1>4 DEF ThreadFine
    <3>5. threads'[i] = u
      BY <1>6
    <3> HIDE DEF u
    <3> QED BY <1>3, <1>4, <3>1, <3>3, <3>4, <3>5 DEF ThreadFine, Sent
  <2>2. \A p \in u.lo .. u.pos - 1 : p \in DOMAIN file'
    <3>1. \A p \in t.lo .. t.pos - 1 : p \in DOMAIN file
      BY <1>1 DEF DownloadInv, Threads
    <3>2. \A p \in Int : t.pos <= p /\ p <= t.pos + t.data - 1 => p \in written
      BY <1>1, <1>3 DEF written
    <3> QED BY <1>3, <1>4, <1>7, <3>1, <3>2
  <2>3. ASSUME NEW j \in DOMAIN threads, j # i
        PROVE  /\ ThreadFine(threads[j])'
               /\ \A p \in threads[j].lo .. threads[j].pos - 1 : p \in DOMAIN file'
    BY <1>5, <1>6, <1>7, <2>3 DEF DownloadInv, Threads, ThreadFine, LastIsEmpty, Sent
  <2> QED BY <1>1, <1>6, <2>1, <2>2, <2>3 DEF Threads
<1>14. OneWrites'
  BY <1>1, <1>4, <1>5, <1>6 DEF DownloadInv, OneWrites
<1>15. InPlace'
  <2>1. AllSound' => AllSound /\ t.sound
    BY <1>1, <1>4, <1>6 DEF AllSound
  <2>2. LastIsEmpty(size)' = LastIsEmpty(size) /\ size' = size
    BY <1>5 DEF LastIsEmpty
  <2> QED BY <1>7, <1>9, <2>1, <2>2 DEF DownloadInv, InPlace
<1>16. Ended'
  BY <1>1, <1>5 DEF DownloadInv, Ended, AllDone
<1> QED BY <1>10, <1>11, <1>12, <1>13, <1>14, <1>15, <1>16 DEF DownloadInv

----
(* The steps of the caller. *)

\* A call begins: nothing of an earlier one is left.
LEMMA StartKeeps == ASSUME DownloadInv, Start PROVE DownloadInv'
<1>1. main = "idle" /\ calls' \in 0..MaxCalls
  BY InputsAssumption DEF Start, DownloadInv, TypesOfDownload
<1>2. /\ next = 0 /\ threads = << >> /\ holder = 0 /\ filepos = 0 /\ file = << >>
      /\ crash = FALSE /\ size = 0
  BY <1>1 DEF DownloadInv, NoneYet, Idle
<1>3. /\ UNCHANGED <<next, threads, holder, filepos, file, crash>>
      /\ main' \in {"exited", "raised", "dispatch"} /\ exists' \in BOOLEAN
      /\ size' \in Sizes \cup {0} /\ size' \in Nat
  <2>1. CASE main' \in {"exited", "raised"} /\ UNCHANGED download
    BY <1>2, <2>1 DEF download, disk, DownloadInv, TypesOfDownload
  <2>2. CASE /\ exists' = TRUE /\ main' = "dispatch" /\ size' \in Sizes
             /\ UNCHANGED <<next, threads, disk, crash>>
    BY <2>2, InputsAssumption DEF disk
  <2> QED BY <2>1, <2>2 DEF Start
<1>4. DOMAIN threads' = {} /\ DOMAIN file' = {} /\ Len(threads') = 0 /\ threads' \in Seq(Thread)
  BY <1>2, <1>3
<1>5. TypesOfDownload'
  <2>1. holder' = 0 /\ filepos' = 0 /\ crash' = FALSE
    BY <1>2, <1>3
  <2>2. main' \in Ends \cup {"idle", "week", "pack", "dispatch", "join"}
    BY <1>3 DEF Ends
  <2>3. holder' \in 0 .. Len(threads') /\ filepos' \in Nat
    BY <1>4, <2>1
  <2>4. crash' \in BOOLEAN
    BY <2>1
  <2> QED BY <1>1, <1>3, <1>4, <2>2, <2>3, <2>4 DEF TypesOfDownload
<1>6. NoneYet'
  BY <1>3 DEF NoneYet, Idle
<1>7. Pages'
  <2>1. size' \div ThreadsNum \in Nat
    BY <1>3, ThreadsAssumption, Division
  <2>2. Step' \in Nat \ {0}
    BY <2>1 DEF Step, BasicPageSize
  <2>3. 0 = 0 * Step'
    BY <2>2, Multiple
  <2>4. Len(threads') = 0 /\ 0 \in 0 .. size' /\ \A b \in {0} : Covered(b)'
    BY <1>3, <1>4 DEF Covered
  <2> QED BY <1>2, <1>3, <1>4, <2>3, <2>4 DEF Pages
<1>8. Threads' /\ OneWrites' /\ InPlace'
  BY <1>4 DEF Threads, OneWrites, InPlace
<1>9. Ended'
  BY <1>3 DEF Ended
<1> QED BY <1>5, <1>6, <1>7, <1>8, <1>9 DEF DownloadInv

\* A page is handed out: it begins where the last one ended.
LEMMA DispatchKeeps ==
  ASSUME DownloadInv, Dispatching
  PROVE  DownloadInv'
<1>1. /\ main = "dispatch" /\ Len(threads) \in Nat /\ BasicPageSize \in Nat
      /\ Step \in Nat \ {0} /\ size \in Nat /\ next \in 0..size
      /\ next = Len(threads) * Step /\ Covered(next) /\ Step = BasicPageSize + 1
  BY PageSize, LenProperties
     DEF Dispatching, Dispatch, DispatchLast, DownloadInv, TypesOfDownload, Pages, Step
<1>2. PICK last \in Int :
        /\ threads' = Append(threads, NewThread(next, last))
        /\ next - 1 <= last /\ last < size
        /\ LastIsEmpty(size) \/ size = 0 \/ next <= last
        /\ \/ main' = main /\ next' = last + 1 /\ next' = next + Step
           \/ main' = "join" /\ next' = next /\ last = size - 1
        /\ UNCHANGED <<calls, size, holder, filepos, file, exists, crash>>
  <2>1. CASE Dispatch
    <3>1. next + BasicPageSize \in Int
      BY <1>1
    <3> QED BY <1>1, <2>1, <3>1 DEF Dispatch, disk
  <2>2. CASE DispatchLast
    <3>1. ASSUME next = size, size # 0 PROVE LastIsEmpty(size)
      <4>1. Len(threads) <= size /\ size = Len(threads) * Step
        BY <1>1, <3>1, Multiple
      <4> QED BY <1>1, <3>1, <4>1 DEF LastIsEmpty, Step, BasicPageSize
    <3>2. size - 1 \in Int
      BY <1>1
    <3> QED BY <1>1, <2>2, <3>1, <3>2 DEF DispatchLast, disk
  <2> QED BY <2>1, <2>2 DEF Dispatching
<1>3. PICK n \in Nat, u \in Thread :
        /\ n = Len(threads) + 1 /\ u = NewThread(next, last)
        /\ u.lo = next /\ u.last = last /\ u.pos = next /\ u.from = next
        /\ u.state = "request" /\ u.sound = TRUE
  <2> DEFINE v == NewThread(next, last)
  <2>1. Len(threads) + 1 \in Nat /\ next \in Nat
    BY <1>1
  <2>2. v \in Thread
    BY <2>1 DEF NewThread, Thread
  <2>3. /\ v.lo = next /\ v.last = last /\ v.pos = next /\ v.from = next
        /\ v.state = "request" /\ v.sound = TRUE
    BY DEF NewThread
  <2> HIDE DEF v
  <2> QED BY <2>1, <2>2, <2>3 DEF v
<1>4. /\ threads' \in Seq(Thread) /\ Len(threads') = n /\ DOMAIN threads' = 1 .. n
      /\ threads'[n] = u /\ DOMAIN threads = 1 .. Len(threads)
      /\ \A j \in DOMAIN threads : threads'[j] = threads[j] /\ threads[j] \in Thread
  BY <1>1, <1>2, <1>3, AppendProperties, LenProperties DEF DownloadInv, TypesOfDownload
<1>5. /\ \A j \in DOMAIN threads' : j = n \/ j \in DOMAIN threads
      /\ DOMAIN threads \subseteq DOMAIN threads'
  BY <1>1, <1>3, <1>4
<1>6. TypesOfDownload'
  <2>1. holder' \in 0 .. Len(threads') /\ main' \in {"dispatch", "join"}
    BY <1>1, <1>2, <1>4 DEF DownloadInv, TypesOfDownload
  <2> QED BY <1>2, <1>4, <2>1 DEF DownloadInv, TypesOfDownload
<1>7. NoneYet'
  BY <1>1, <1>2 DEF NoneYet, Idle
<1>8. Pages'
  <2>1. next' \in 0 .. size'
    BY <1>1, <1>2
  <2>2. Step' = Step /\ LastIsEmpty(size)' = LastIsEmpty(size)
    BY <1>2 DEF Step, BasicPageSize, LastIsEmpty
  <2>3. main' = "dispatch" => next' = Len(threads') * Step'
    BY <1>1, <1>2, <1>4, <2>2, Multiple
  <2>4. \A p \in 0 .. last : \E j \in DOMAIN threads' :
          threads'[j].lo <= p /\ p <= threads'[j].last
    <3> SUFFICES ASSUME NEW p \in 0 .. last
                 PROVE  \E j \in DOMAIN threads' :
                          threads'[j].lo <= p /\ p <= threads'[j].last
      OBVIOUS
    <3>1. CASE p < next
      <4>1. p \in 0 .. next - 1
        BY <1>1, <3>1
      <4>2. PICK j \in DOMAIN threads : threads[j].lo <= p /\ p <= threads[j].last
        BY <1>1, <4>1 DEF Covered
      <4> QED BY <1>4, <1>5, <4>2
    <3>2. CASE p >= next
      <4>1. n \in DOMAIN threads' /\ threads'[n].lo = next /\ threads'[n].last = last
        BY <1>1, <1>3, <1>4
      <4> QED BY <1>1, <3>2, <4>1
    <3> QED BY <1>1, <3>1, <3>2
  <2>5. /\ main' = "dispatch" => Covered(next)'
        /\ main' \in {"join", "finished"} => Covered(size)'
    <3>1. /\ main' = "dispatch" => next' - 1 = last
          /\ main' \in {"join", "finished"} => size' - 1 = last
      BY <1>1, <1>2
    <3> QED BY <2>4, <3>1 DEF Covered
  <2>6. ASSUME NEW j \in DOMAIN threads'
        PROVE  /\ threads'[j].lo - 1 <= threads'[j].last /\ threads'[j].last < size'
               /\ LastIsEmpty(size)' \/ size' = 0 \/ threads'[j].lo <= threads'[j].last
    <3>1. CASE j = n
      BY <1>2, <1>3, <1>4, <2>2, <3>1
    <3>2. CASE j \in DOMAIN threads
      <4>1. threads'[j] = threads[j] /\ size' = size
        BY <1>2, <1>4, <3>2
      <4> QED BY <2>2, <3>2, <4>1 DEF DownloadInv, Pages
    <3> QED BY <1>5, <2>6, <3>1, <3>2
  <2> QED BY <2>1, <2>3, <2>5, <2>6 DEF Pages
<1>9. Threads'
  <2>1. ThreadFine(threads[n])' /\ \A p \in u.lo .. u.pos - 1 : p \in DOMAIN file'
    BY <1>1, <1>3, <1>4 DEF ThreadFine
  <2>2. ASSUME NEW j \in DOMAIN threads
        PROVE  /\ ThreadFine(threads[j])'
               /\ \A p \in threads'[j].lo .. threads'[j].pos - 1 : p \in DOMAIN file'
    BY <1>1, <1>2, <1>4, <2>2 DEF DownloadInv, Threads, ThreadFine, LastIsEmpty, Sent
  <2> QED BY <1>4, <1>5, <2>1, <2>2 DEF Threads
<1>10. OneWrites'
  BY <1>1, <1>2, <1>3, <1>4, <1>5 DEF DownloadInv, OneWrites, TypesOfDownload
<1>11. InPlace'
  <2>1. AllSound' => AllSound
    BY <1>4, <1>5 DEF AllSound
  <2> QED BY <1>2, <2>1 DEF DownloadInv, InPlace, LastIsEmpty
<1>12. Ended'
  BY <1>1, <1>2 DEF Ended
<1> QED BY <1>6, <1>7, <1>8, <1>9, <1>10, <1>11, <1>12 DEF DownloadInv

\* All threads are done.
LEMMA JoinKeeps == ASSUME DownloadInv, Join PROVE DownloadInv'
<1>1. /\ main = "join" /\ main' \in {"raised", "finished"}
      /\ UNCHANGED <<calls, size, next, threads, holder, filepos, file, exists, crash>>
  BY DEF Join, download, disk
<1>2. TypesOfDownload'
  BY <1>1 DEF DownloadInv, TypesOfDownload, Ends
<1>3. NoneYet'
  BY <1>1 DEF NoneYet, Idle
<1>4. Pages'
  BY <1>1 DEF DownloadInv, Pages, Covered, LastIsEmpty, BasicPageSize
<1>5. Threads'
  BY <1>1 DEF DownloadInv, Threads, ThreadFine, LastIsEmpty, Sent
<1>6. OneWrites' /\ InPlace'
  BY <1>1 DEF DownloadInv, OneWrites, InPlace, AllSound, LastIsEmpty
<1>7. Ended'
  BY DEF Join, Ended, AllDone, download
<1> QED BY <1>2, <1>3, <1>4, <1>5, <1>6, <1>7 DEF DownloadInv

\* Ctrl-C.
LEMMA InterruptKeeps == ASSUME DownloadInv, Interrupt PROVE DownloadInv'
<1>1. /\ main = "join" /\ main' = "exited" /\ holder' = 0
      /\ threads' = [i \in DOMAIN threads |-> [threads[i] EXCEPT !.state = "done"]]
      /\ UNCHANGED <<calls, size, next, filepos, file, exists, crash>>
  BY DEF Interrupt
<1>2. /\ DOMAIN threads' = DOMAIN threads /\ DOMAIN threads = 1 .. Len(threads)
      /\ Len(threads) \in Nat
  BY <1>1, LenProperties DEF DownloadInv, TypesOfDownload
<1>3. ASSUME NEW i \in DOMAIN threads
      PROVE  /\ threads'[i] \in Thread /\ threads'[i].state = "done" /\ i # 0
             /\ threads'[i].lo = threads[i].lo /\ threads'[i].last = threads[i].last
             /\ threads'[i].pos = threads[i].pos /\ threads'[i].from = threads[i].from
             /\ threads'[i].sound = threads[i].sound
  BY <1>1, <1>2, <1>3, ThreadTypes DEF DownloadInv, Thread
<1>4. threads' \in Seq(Thread) /\ Len(threads') = Len(threads)
  BY <1>1, <1>2, <1>3, IsASeq, LenProperties
<1>5. TypesOfDownload'
  BY <1>1, <1>2, <1>4 DEF DownloadInv, TypesOfDownload, Ends
<1>6. NoneYet'
  BY <1>1 DEF NoneYet, Idle
<1>7. Pages'
  BY <1>1, <1>2, <1>3 DEF DownloadInv, Pages, LastIsEmpty
<1>8. Threads'
  BY <1>1, <1>2, <1>3 DEF DownloadInv, Threads, ThreadFine
<1>9. OneWrites'
  BY <1>1, <1>2, <1>3 DEF OneWrites
<1>10. InPlace'
  BY <1>1, <1>2, <1>3 DEF DownloadInv, InPlace, AllSound, LastIsEmpty
<1>11. Ended'
  BY <1>1 DEF Ended
<1> QED BY <1>5, <1>6, <1>7, <1>8, <1>9, <1>10, <1>11 DEF DownloadInv

\* Where there are no threads and no file, little is claimed.
LEMMA NothingHolds ==
  main \in Idle /\ calls \in 0..MaxCalls /\ exists \in BOOLEAN /\ NoneYet => DownloadInv
<1> SUFFICES ASSUME main \in Idle, calls \in 0..MaxCalls, exists \in BOOLEAN, NoneYet
             PROVE  DownloadInv
  OBVIOUS
<1>1. /\ size = 0 /\ next = 0 /\ threads = << >> /\ holder = 0
      /\ filepos = 0 /\ file = << >> /\ crash = FALSE
  BY DEF NoneYet
<1>2. /\ DOMAIN threads = {} /\ DOMAIN file = {} /\ Len(threads) = 0 /\ threads \in Seq(Thread)
      /\ holder \in 0 .. Len(threads) /\ next \in 0 .. size
  BY <1>1
<1>3. crash \in BOOLEAN
  BY <1>1
<1>4. TypesOfDownload
  BY <1>1, <1>2, <1>3 DEF TypesOfDownload, Idle, Ends
<1>5. Pages /\ Threads /\ OneWrites /\ InPlace /\ Ended
  BY <1>2 DEF Pages, Threads, OneWrites, InPlace, Ended, Idle
<1> QED BY <1>4, <1>5 DEF DownloadInv

LEMMA DownloadInit == Init => DownloadInv
<1> SUFFICES ASSUME Init PROVE DownloadInv
  OBVIOUS
<1>1. main \in Idle /\ calls \in 0..MaxCalls
  BY InputsAssumption DEF Init, Idle
<1>2. exists \in BOOLEAN
  BY DEF Init
<1>3. NoneYet
  BY DEF Init, NoneYet
<1> QED BY <1>1, <1>2, <1>3, NothingHolds

\* get_latest_version, and the next call.
LEMMA OthersKeep ==
  ASSUME DownloadInv,
         FindYear \/ FindWeek \/ FindPack \/ (\E p \in Packs : Publish(p)) \/ Leave
  PROVE  DownloadInv'
<1>1. main' \in Idle /\ calls' \in 0..MaxCalls
  BY InputsAssumption
     DEF FindYear, FindWeek, FindPack, Publish, Leave, Idle, DownloadInv, TypesOfDownload
<1>2. exists' = exists
  BY DEF FindYear, FindWeek, FindPack, Publish, Leave, download
<1>3. NoneYet'
  <2>1. CASE Leave
    BY <2>1 DEF Leave, NoneYet
  <2>2. CASE main \in Idle /\ UNCHANGED download
    BY <2>2 DEF DownloadInv, NoneYet, download, disk
  <2> QED BY <2>1, <2>2 DEF FindYear, FindWeek, FindPack, Publish, Idle
<1>4. exists' \in BOOLEAN
  BY <1>2 DEF DownloadInv, TypesOfDownload
<1>5. (main \in Idle /\ calls \in 0..MaxCalls /\ exists \in BOOLEAN /\ NoneYet)'
  BY <1>1, <1>3, <1>4 DEF Idle
<1> QED BY <1>5, NothingHolds, PTL

\* The invariant of a download is inductive.
LEMMA DownloadNext == DownloadInv /\ [Next]_vars => DownloadInv'
<1> SUFFICES ASSUME DownloadInv, [Next]_vars PROVE DownloadInv'
  OBVIOUS
<1>1. CASE UNCHANGED vars
  BY <1>1 DEF vars, download, disk, DownloadInv, TypesOfDownload, NoneYet, Pages, Covered,
              Threads, ThreadFine, Sent, OneWrites, InPlace, AllSound, LastIsEmpty,
              BasicPageSize, Step, Ended, AllDone
<1>2. CASE Next
  <2>1. ASSUME NEW i \in 1 .. MaxThreads, ThreadStep(i) PROVE DownloadInv'
    BY <2>1, RespondKeeps, GiveUpKeeps, ReadKeeps, SeekKeeps, WriteKeeps DEF ThreadStep
  <2> QED BY <1>2, <2>1, StartKeeps, DispatchKeeps, JoinKeeps, InterruptKeeps, OthersKeep DEF Next
<1> QED BY <1>1, <1>2

\* When no thread is left and none has failed, every byte has been written.
LEMMA WholeAtTheEnd == DownloadInv => FinishedIsWhole
<1> SUFFICES ASSUME DownloadInv, main = "finished", AllSound, ~LastIsEmpty(size)
             PROVE  DOMAIN file = 0 .. size - 1 /\ \A p \in DOMAIN file : file[p] = p
  BY DEF FinishedIsWhole
<1>1. Covered(size) /\ size \in Nat /\ DOMAIN file \subseteq Nat
  BY DEF DownloadInv, Pages, TypesOfDownload
<1>2. \A p \in DOMAIN file : file[p] = p /\ p < size
  BY DEF DownloadInv, InPlace
<1>3. ASSUME NEW i \in DOMAIN threads
      PROVE  threads[i] \in Thread /\ threads[i].pos = threads[i].last + 1
  BY <1>3, ThreadTypes
     DEF DownloadInv, Ended, AllDone, AllSound, Threads, ThreadFine
<1>4. ASSUME NEW p \in 0 .. size - 1 PROVE p \in DOMAIN file
  <2>1. PICK i \in DOMAIN threads : threads[i].lo <= p /\ p <= threads[i].last
    BY <1>1 DEF Covered
  <2>2. p \in threads[i].lo .. threads[i].pos - 1
    BY <1>1, <1>3, <2>1 DEF Thread
  <2> QED BY <2>2 DEF DownloadInv, Threads
<1>5. DOMAIN file \subseteq 0 .. size - 1
  BY <1>1, <1>2
<1> QED BY <1>2, <1>4, <1>5

\* A finished download is the whole file, for every size but those whose last
\* page is empty, every number of threads and chunk size, however the threads
\* interleave, and whichever of them fail.
THEOREM WholeFile == Spec => []FinishedIsWhole
BY DownloadInit, DownloadNext, WholeAtTheEnd, PTL DEF Spec

----
(* get_latest_version. *)

\* Of finitely many numbers one is the largest.
LEMMA MaxIsThere ==
  ASSUME NEW S \in SUBSET Nat, IsFiniteSet(S), S # {}
  PROVE  Max(S) \in S /\ \A x \in S : Max(S) >= x
<1> DEFINE HasMax(A) == \E x \in A : \A y \in A : x >= y
           Without == {A \in SUBSET S : A # {} /\ ~HasMax(A)}
<1>1. IsWellFoundedOn(StrictSubsetOrdering(S), SUBSET S)
  BY FS_StrictSubsetOrderingWellFounded, FS_FiniteSubsetsOfFinite
<1>2. Without = {}
  <2> SUFFICES ASSUME Without # {} PROVE FALSE
    OBVIOUS
  <2>1. PICK A \in Without : \A B \in Without : <<B, A>> \notin StrictSubsetOrdering(S)
    BY <1>1, WFMin
  <2>2. PICK x \in A : x \in Nat
    BY <2>1
  <2>3. A \ {x} \notin Without
    BY <2>1, <2>2 DEF StrictSubsetOrdering
  <2>4. CASE A \ {x} = {}
    <3>1. A = {x}
      BY <2>2, <2>4
    <3> QED BY <2>1, <2>2, <3>1
  <2>5. CASE HasMax(A \ {x})
    <3>1. PICK y \in A \ {x} : \A z \in A \ {x} : y >= z
      BY <2>5
    <3>2. y \in Nat /\ \A z \in A : z = x \/ y >= z
      BY <2>1, <3>1
    <3>3. CASE y >= x
      BY <2>1, <3>1, <3>2, <3>3
    <3>4. CASE x >= y
      <4>1. \A z \in A : z \in Nat /\ x >= z
        BY <2>1, <2>2, <3>2, <3>4
      <4> QED BY <2>1, <2>2, <4>1
    <3> QED BY <2>2, <3>2, <3>3, <3>4
  <2> QED BY <2>1, <2>3, <2>4, <2>5
<1>3. HasMax(S)
  BY <1>2
<1> QED BY <1>3 DEF Max

\* What a listing's loop keeps.
LEMMA AboveIsLargest ==
  ASSUME NEW S \in SUBSET Nat, IsFiniteSet(S), NEW default \in Nat
  PROVE  /\ Above(S, default) \in S \cup {default} /\ Above(S, default) \in Nat
         /\ \A x \in S : x <= Above(S, default)
         /\ default <= Above(S, default)
<1>1. IsFiniteSet(S \cup {default}) /\ S \cup {default} \in SUBSET Nat
  BY FS_AddElement
<1>2. /\ Max(S \cup {default}) \in S \cup {default}
      /\ \A x \in S \cup {default} : Max(S \cup {default}) >= x
  BY <1>1, MaxIsThere
<1> QED BY <1>1, <1>2 DEF Above

\* The listings are finite: here of the i-th parts of some packages.
LEMMA PartsFinite ==
  ASSUME NEW R \in SUBSET Packs, IsFiniteSet(R), NEW i \in 1..3
  PROVE  {p[i] : p \in R} \in SUBSET Nat /\ IsFiniteSet({p[i] : p \in R})
<1> DEFINE T == {p[i] : p \in R}
           f == [p \in R |-> p[i]]
<1>1. f \in Surjection(R, T)
  BY DEF Surjection
<1>2. IsFiniteSet(T)
  BY <1>1, FS_Surjection
<1>3. \A p \in Packs : p[1] \in Nat /\ p[2] \in Nat /\ p[3] \in Nat
  BY InputsAssumption
<1> QED BY <1>2, <1>3

\* A package of the newest year is what everybody asks for.
Recent == \E p \in known : p[1] >= 2021

\* What the first listings have found holds after the later ones, though the
\* repository grows.
YearFound ==
  main \in {"week", "pack", "found"} /\ Recent =>
    /\ \A p \in known : p[1] <= latest[1]
    /\ \E q \in repo : q[1] = latest[1]
WeekFound ==
  main \in {"pack", "found"} /\ Recent =>
    /\ \A p \in known : p[1] = latest[1] => p[2] <= latest[2]
    /\ \E q \in repo : q[1] = latest[1] /\ q[2] = latest[2]
PackFound ==
  main = "found" /\ Recent =>
    /\ \A p \in known : p[1] = latest[1] /\ p[2] = latest[2] => p[3] <= latest[3]
    /\ latest \in repo

Version == Nat \X (Nat \ {0}) \X (Nat \ {0})
TypesOfScan ==
  repo \subseteq Packs /\ IsFiniteSet(repo) /\ known \subseteq repo /\ latest \in Version

ScanInv == TypesOfScan /\ YearFound /\ WeekFound /\ PackFound

LEMMA ScanInit == Init => ScanInv
BY InputsAssumption
   DEF Init, ScanInv, TypesOfScan, Version, YearFound, WeekFound, PackFound

LEMMA FindYearFinds == ASSUME ScanInv, FindYear PROVE ScanInv'
<1> DEFINE S == {p[1] : p \in repo}
           y == Above(S, 2021)
<1>1. S \in SUBSET Nat /\ IsFiniteSet(S)
  <2>1. 1 \in 1..3 /\ repo \in SUBSET Packs /\ IsFiniteSet(repo)
    BY DEF ScanInv, TypesOfScan
  <2> QED BY <2>1, PartsFinite, Zenon
<1>2. y \in S \cup {2021} /\ y \in Nat /\ (\A x \in S : x <= y) /\ 2021 <= y
  <2>1. 2021 \in Nat
    OBVIOUS
  <2> HIDE DEF S
  <2> QED BY <1>1, <2>1, AboveIsLargest
<1>3. latest' = <<y, 1, 1>> /\ known' = repo /\ repo' = repo /\ main' = "week"
  BY DEF FindYear
<1> HIDE DEF y
<1>4. TypesOfScan'
  BY <1>2, <1>3 DEF ScanInv, TypesOfScan, Version
<1>5. Recent' => \E q \in repo : q[1] = y
  <2> SUFFICES ASSUME NEW p \in repo, p[1] >= 2021 PROVE y \in S
    BY <1>3 DEF Recent
  <2>1. p[1] \in S
    OBVIOUS
  <2>2. p[1] <= y /\ p[1] \in Nat
    BY <1>1, <1>2, <2>1
  <2> QED BY <1>2, <2>1, <2>2
<1>6. YearFound'
  BY <1>2, <1>3, <1>5 DEF YearFound, Recent
<1>7. WeekFound' /\ PackFound'
  BY <1>3 DEF WeekFound, PackFound
<1> QED BY <1>4, <1>6, <1>7 DEF ScanInv

LEMMA FindWeekFinds == ASSUME ScanInv, FindWeek PROVE ScanInv'
<1> DEFINE R == {q \in repo : q[1] = latest[1]}
           S == {p[2] : p \in R}
           w == Above(S, 1)
<1>1. R \in SUBSET Packs /\ IsFiniteSet(R)
  BY FS_Subset DEF ScanInv, TypesOfScan
<1>2. S \in SUBSET Nat /\ IsFiniteSet(S)
  <2>1. 2 \in 1..3
    OBVIOUS
  <2> QED BY <1>1, <2>1, PartsFinite, Zenon
<1>3. w \in S \cup {1} /\ w \in Nat /\ (\A x \in S : x <= w) /\ 1 <= w
  BY <1>2, AboveIsLargest
<1>4. latest' = [latest EXCEPT ![2] = w] /\ UNCHANGED <<known, repo>>
      /\ main = "week" /\ main' = "pack"
  BY DEF FindWeek
<1>5. latest \in Version
  BY DEF ScanInv, TypesOfScan
<1> HIDE DEF w
<1>6. latest' \in Version /\ latest'[1] = latest[1] /\ latest'[2] = w
  BY <1>3, <1>4, <1>5 DEF Version
<1>7. TypesOfScan'
  BY <1>4, <1>6 DEF ScanInv, TypesOfScan
<1>8. YearFound'
  BY <1>4, <1>6 DEF ScanInv, YearFound, Recent
<1>9. WeekFound'
  <2> SUFFICES ASSUME Recent
               PROVE  /\ \A p \in known : p[1] = latest[1] => p[2] <= w
                      /\ \E q \in repo : q[1] = latest[1] /\ q[2] = w
    BY <1>4, <1>6 DEF WeekFound, Recent
  <2>1. \A p \in known : p[1] = latest[1] => p[2] \in S
    BY DEF ScanInv, TypesOfScan
  <2>2. PICK q \in repo : q[1] = latest[1]
    BY <1>4 DEF ScanInv, YearFound
  <2>3. q[2] \in S /\ q[2] \in Nat \ {0}
    BY <2>2, InputsAssumption DEF ScanInv, TypesOfScan
  <2>4. w \in S
    <3> HIDE DEF S
    <3> QED BY <1>2, <1>3, <2>3
  <2> QED BY <1>3, <2>1, <2>4
<1>10. PackFound'
  BY <1>4 DEF PackFound
<1> QED BY <1>7, <1>8, <1>9, <1>10 DEF ScanInv

LEMMA FindPackFinds == ASSUME ScanInv, FindPack PROVE ScanInv'
<1> DEFINE R == {q \in repo : q[1] = latest[1] /\ q[2] = latest[2]}
           S == {p[3] : p \in R}
           k == Above(S, 1)
<1>1. R \in SUBSET Packs /\ IsFiniteSet(R)
  BY FS_Subset DEF ScanInv, TypesOfScan
<1>2. S \in SUBSET Nat /\ IsFiniteSet(S)
  <2>1. 3 \in 1..3
    OBVIOUS
  <2> QED BY <1>1, <2>1, PartsFinite, Zenon
<1>3. k \in S \cup {1} /\ k \in Nat /\ (\A x \in S : x <= k) /\ 1 <= k
  BY <1>2, AboveIsLargest
<1>4. latest' = [latest EXCEPT ![3] = k] /\ UNCHANGED <<known, repo>>
      /\ main = "pack" /\ main' = "found"
  BY DEF FindPack
<1>5. latest \in Version
  BY DEF ScanInv, TypesOfScan
<1> HIDE DEF k
<1>6. /\ latest' \in Version /\ latest'[1] = latest[1] /\ latest'[2] = latest[2]
      /\ latest'[3] = k /\ latest' = <<latest[1], latest[2], k>>
  BY <1>3, <1>4, <1>5 DEF Version
<1>7. TypesOfScan'
  BY <1>4, <1>6 DEF ScanInv, TypesOfScan
<1>8. YearFound' /\ WeekFound'
  BY <1>4, <1>6 DEF ScanInv, YearFound, WeekFound, Recent
<1>9. PackFound'
  <2> SUFFICES ASSUME Recent
               PROVE  /\ \A p \in known : p[1] = latest[1] /\ p[2] = latest[2] => p[3] <= k
                      /\ latest' \in repo
    <3>1. /\ latest'[1] = latest[1] /\ latest'[2] = latest[2] /\ latest'[3] = k
          /\ main' = "found" /\ known' = known /\ repo' = repo
      BY <1>4, <1>6
    <3> QED BY <3>1 DEF PackFound, Recent
  <2>1. \A p \in known : p[1] = latest[1] /\ p[2] = latest[2] => p[3] \in S
    BY DEF ScanInv, TypesOfScan
  <2>2. PICK q \in repo : q[1] = latest[1] /\ q[2] = latest[2]
    BY <1>4 DEF ScanInv, WeekFound
  <2>3. q[3] \in S /\ q[3] \in Nat \ {0}
    BY <2>2, InputsAssumption DEF ScanInv, TypesOfScan
  <2>4. k \in S
    <3> HIDE DEF S
    <3> QED BY <1>2, <1>3, <2>3
  <2>5. PICK r \in repo : r[1] = latest[1] /\ r[2] = latest[2] /\ r[3] = k
    BY <2>4
  <2>6. r = <<r[1], r[2], r[3]>>
    BY InputsAssumption DEF ScanInv, TypesOfScan
  <2>7. latest' = r
    BY <1>6, <2>5, <2>6
  <2> QED BY <1>3, <2>1, <2>7
<1> QED BY <1>7, <1>8, <1>9 DEF ScanInv

\* Somebody adds a package: what has been found is still there.
LEMMA PublishFinds ==
  ASSUME ScanInv, NEW p \in Packs, Publish(p)
  PROVE  ScanInv'
<1>1. repo' = repo \cup {p} /\ UNCHANGED <<main, known, latest>>
  BY DEF Publish
<1>2. TypesOfScan'
  <2>1. IsFiniteSet(repo')
    BY <1>1, FS_AddElement DEF ScanInv, TypesOfScan
  <2> QED BY <1>1, <2>1 DEF ScanInv, TypesOfScan
<1>3. YearFound' /\ WeekFound' /\ PackFound'
  BY <1>1 DEF ScanInv, YearFound, WeekFound, PackFound, Recent
<1> QED BY <1>2, <1>3 DEF ScanInv

\* The caller's other steps have found nothing.
LEMMA ElsewhereFinds ==
  ASSUME ScanInv, main' \notin {"week", "pack", "found"}, repo' = repo,
         known' \subseteq known, latest' \in Version
  PROVE  ScanInv'
BY DEF ScanInv, TypesOfScan, YearFound, WeekFound, PackFound

LEMMA ScanNext == ScanInv /\ [Next]_vars => ScanInv'
<1> SUFFICES ASSUME ScanInv, [Next]_vars PROVE ScanInv'
  OBVIOUS
<1>1. latest \in Version
  BY DEF ScanInv, TypesOfScan
<1>2. CASE UNCHANGED <<main, repo, known, latest>>
  BY <1>2 DEF ScanInv, TypesOfScan, YearFound, WeekFound, PackFound, Recent
<1>3. CASE Start \/ Dispatching \/ Join \/ Interrupt
  <2>1. main' \notin {"week", "pack", "found"} /\ UNCHANGED <<repo, known, latest>>
    BY <1>3 DEF Start, Dispatching, Dispatch, DispatchLast, Join, Interrupt, scan
  <2> QED BY <1>1, <2>1, ElsewhereFinds
<1>4. CASE Leave
  <2>1. main' = "idle" /\ repo' = repo /\ known' = {} /\ latest' = <<2021, 1, 1>>
    BY <1>4 DEF Leave
  <2>2. latest' \in Version
    BY <2>1 DEF Version
  <2> QED BY <2>1, <2>2, ElsewhereFinds
<1>5. ASSUME NEW i \in 1 .. MaxThreads, ThreadStep(i)
      PROVE  UNCHANGED <<main, repo, known, latest>>
  BY <1>5 DEF ThreadStep, Respond, RespondError, Fail, Read, Cut, Seek, WriteData, WriteFails,
              caller, scan
<1>6. CASE UNCHANGED vars
  BY <1>2, <1>6 DEF vars, scan
<1> QED BY <1>2, <1>3, <1>4, <1>5, <1>6, FindYearFinds, FindWeekFinds, FindPackFinds, PublishFinds
        DEF Next

\* What get_latest_version names exists, and no package that was there when it
\* began is newer, for every repository and whatever is added meanwhile.
THEOREM NewestIsNamed == Spec => []LatestIsNewest
<1>1. ScanInv => LatestIsNewest
  <2> SUFFICES ASSUME ScanInv, main = "found", Recent
               PROVE  latest \in repo /\ \A p \in known : ~Newer(p, latest)
    BY DEF LatestIsNewest, Recent
  <2>1. latest \in repo /\ latest \in Packs
    BY DEF ScanInv, PackFound, TypesOfScan
  <2>2. ASSUME NEW p \in known PROVE ~Newer(p, latest)
    <3>1. p \in Packs
      BY DEF ScanInv, TypesOfScan
    <3>2. /\ p[1] \in Nat /\ p[2] \in Nat /\ p[3] \in Nat
          /\ latest[1] \in Nat /\ latest[2] \in Nat /\ latest[3] \in Nat
      BY <2>1, <3>1, InputsAssumption
    <3> QED BY <3>2 DEF Newer, ScanInv, YearFound, WeekFound, PackFound
  <2> QED BY <2>1, <2>2
<1> QED BY <1>1, ScanInit, ScanNext, PTL DEF Spec

\* The type invariant, for every number of threads, every size and every
\* repository.
THEOREM ArtifactoryTypes == Spec => []TypeOK
<1>1. DownloadInv /\ ScanInv => TypeOK
  BY DEF DownloadInv, TypesOfDownload, Pages, ScanInv, TypesOfScan, Version, TypeOK
<1> QED BY <1>1, DownloadInit, DownloadNext, ScanInit, ScanNext, PTL DEF Spec
====
