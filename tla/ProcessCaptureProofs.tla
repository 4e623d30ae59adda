------------------------ MODULE ProcessCaptureProofs ------------------------
(* A captured call that is torn down leaves no process of its group and has run its
   cleanup command, provided no second exception cuts the teardown short: Teardown is
   the inductive invariant.  What it returns of a stream it did not give up is whole:
   CaptureInv.  Any modes, any number of chunks and of exceptions. *)
EXTENDS ProcessCapture, FiniteSetTheorems, TLAPS

-----------------------------------------------------------------------------
(* Types. *)

LEMMA InitTyped == Init => TypeOK
<1> SUFFICES ASSUME Init PROVE TypeOK
  OBVIOUS
<1>1. main \in Main /\ child \in Child /\ helper \in Helper
  BY DEF Init, Main, Child, Helper, Pcs
<1>2. reader \in [Stream -> {"off", "run", "poll", "live", "last", "done"}] /\ writer \in {"off", "run", "done"}
  BY DEF Init
<1>3. unread \in [Stream -> Nat] /\ owed \in [Stream -> Nat] /\ got \in [Stream -> Nat]
  BY DEF Init
<1>4. queue \in Seq(Stream \X {"chunk", "eof"}) /\ raised \in 0..MaxExceptions
  BY BoundAssumption DEF Init
<1> QED BY <1>1, <1>2, <1>3, <1>4 DEF Init, TypeOK

LEMMA GoTyped == ASSUME TypeOK, NEW pc \in Pcs, Go(pc) PROVE main' \in Main
BY DEF TypeOK, Go, Main

LEMMA StopTyped == ASSUME TypeOK, NEW why \in {"timeout", "raise", "start"}, Stop(why) PROVE main' \in Main
BY DEF TypeOK, Stop, Main, Pcs

LEMMA PutTyped ==
  ASSUME TypeOK, NEW s \in Stream, NEW what \in {"chunk", "eof"}, Put(s, what)
  PROVE  queue' \in Seq(Stream \X {"chunk", "eof"})
BY DEF TypeOK, Put

LEMMA NextTyped == TypeOK /\ [Next]_vars => TypeOK'
<1> SUFFICES ASSUME TypeOK, [Next]_vars PROVE TypeOK'
  OBVIOUS
<1> USE ModesAssumption, BoundAssumption
<1>1. CASE Spawn
  BY <1>1 DEF TypeOK, Spawn, Go, threads, pipes, Main, Child, Pcs
<1>2. CASE StartThreads
  <2>1. main' \in Main
    BY <1>2, GoTyped, StopTyped DEF StartThreads, Pcs
  <2>2. reader' \in [Stream -> {"off", "run", "poll", "live", "last", "done"}] /\ writer' \in {"off", "run", "done"}
    BY <1>2 DEF TypeOK, StartThreads
  <2> QED BY <1>2, <2>1, <2>2 DEF TypeOK, StartThreads, threads, pipes
<1>3. CASE StartFails
  BY <1>3 DEF TypeOK, StartFails, Stop, threads, pipes, Main, Pcs
<1>4. CASE Take
  <2>1. Head(queue) \in Stream \X {"chunk", "eof"} /\ queue' \in Seq(Stream \X {"chunk", "eof"})
    BY <1>4 DEF TypeOK, Take
  <2>2. Head(queue)[1] \in Stream
    BY <2>1
  <2>3. main' \in Main
    <3>1. CASE UNCHANGED main
      BY <3>1 DEF TypeOK
    <3> QED BY <1>4, <3>1, GoTyped, StopTyped DEF Take, Pcs
  <2>4. got' \in [Stream -> Nat]
    BY SMTT(30), <1>4 DEF TypeOK, Take
  <2>5. closed' \subseteq Stream
    BY <1>4, <2>2 DEF TypeOK, Take
  <2>6. raised' \in 0..MaxExceptions
    BY <1>4 DEF TypeOK, Take
  <2> QED BY <1>4, <2>1, <2>3, <2>4, <2>5, <2>6 DEF TypeOK, Take, threads, pipes
<1>5. CASE IdleTimeout
  BY <1>5 DEF TypeOK, IdleTimeout, threads, pipes, Main, Pcs
<1>6. CASE Wait
  BY <1>6 DEF TypeOK, Wait, Go, Reaped, threads, pipes, Main, Child, Pcs
<1>7. CASE Cleanup
  <2>1. mode.cleanup \in BOOLEAN
    BY DEF TypeOK, Mode
  <2> QED BY <1>7, <2>1 DEF TypeOK, Cleanup, Go, threads, pipes, Main, Pcs
<1>8. ASSUME Stopped PROVE main' \in Main
  BY <1>8 DEF TypeOK, Stopped, Stop, Go, Main, Pcs
<1>9. CASE Term
  <2>1. main' \in Main
    BY <1>8, <1>9 DEF TypeOK, Term, Go, Main, Pcs
  <2> QED BY <1>9, <2>1 DEF TypeOK, Term, Reaped, threads, pipes, Child
<1>10. CASE Exited
  <2>1. main' \in Main
    BY <1>8, <1>10 DEF TypeOK, Exited, Go, Main, Pcs
  <2> QED BY <1>10, <2>1 DEF TypeOK, Exited, Reaped, threads, pipes, Child
<1>11. CASE Kill
  BY <1>8, <1>11 DEF TypeOK, Kill, Killed, threads, pipes, Child, Helper
<1>12. CASE Stragglers
  BY <1>8, <1>12 DEF TypeOK, Stragglers, Killed, threads, pipes, Helper
<1>13. CASE Flush
  <2>1. main' \in Main
    BY <1>13, GoTyped, StopTyped DEF Flush, Pcs
  <2> QED BY <1>13, <2>1 DEF TypeOK, Flush, threads, pipes
<1>14. CASE Join
  BY <1>14 DEF TypeOK, Join, Go, threads, pipes, Main, Pcs
<1>15. CASE Interrupt
  <2>1. main' \in Main
    BY <1>15 DEF TypeOK, Interrupt, Tearing, Go, Stop, Main, Pcs
  <2> QED BY <1>15, <2>1 DEF TypeOK, Interrupt, threads, pipes
<1>16. CASE BrokenPipe \/ ReadsStdin
  BY <1>16 DEF TypeOK, BrokenPipe, ReadsStdin, pipes
<1>17. ASSUME NEW s \in Stream, Reader(s) PROVE TypeOK'
  <2>1. CASE ReadPipe(s)
    <3>1. queue' \in Seq(Stream \X {"chunk", "eof"})
      BY <2>1, PutTyped DEF ReadPipe, Over
    <3>2. unread' \in [Stream -> Nat]
      <4>1. CASE unread[s] > 0 /\ unread' = [unread EXCEPT ![s] = @ - 1]
        BY <4>1 DEF TypeOK
      <4>2. CASE unread' = unread
        BY <4>2 DEF TypeOK
      <4> QED BY <2>1, <4>1, <4>2 DEF ReadPipe
    <3>3. reader' \in [Stream -> {"off", "run", "poll", "live", "last", "done"}]
      BY <2>1 DEF TypeOK, ReadPipe, Over
    <3> QED BY <2>1, <3>1, <3>2, <3>3 DEF TypeOK, ReadPipe, Still
  <2>2. CASE PollFile(s)
    BY <2>2 DEF TypeOK, PollFile, Still, Child
  <2>3. CASE ReadFile(s)
    <3>1. queue' \in Seq(Stream \X {"chunk", "eof"})
      <4>1. CASE UNCHANGED queue
        BY <4>1 DEF TypeOK
      <4> QED BY <2>3, <4>1, PutTyped DEF ReadFile, Over
    <3>2. unread' \in [Stream -> Nat]
      BY <2>3 DEF TypeOK, ReadFile
    <3>3. reader' \in [Stream -> {"off", "run", "poll", "live", "last", "done"}]
      BY <2>3 DEF TypeOK, ReadFile, Over
    <3> QED BY <2>3, <3>1, <3>2, <3>3 DEF TypeOK, ReadFile, Still
  <2> QED BY <1>17, <2>1, <2>2, <2>3 DEF Reader
<1>18. ASSUME NEW s \in Stream, Writes(s) PROVE TypeOK'
  <2>1. unread' \in [Stream -> Nat] /\ owed' \in [Stream -> Nat]
    BY <1>18 DEF TypeOK, Writes
  <2> QED BY <1>18, <2>1 DEF TypeOK, Writes, World, threads
<1>19. CASE Forks
  BY <1>19 DEF TypeOK, Forks, World, threads, pipes, Helper, Stream
<1>20. CASE ClosesOutput \/ ChildExits
  <2>1. child' \in Child
    <3>1. CASE ClosesOutput
      BY <3>1 DEF TypeOK, ClosesOutput, Child
    <3>2. CASE ChildExits
      BY <3>2 DEF ChildExits, Child
    <3> QED BY <1>20, <3>1, <3>2
  <2> QED BY <1>20, <2>1 DEF TypeOK, ClosesOutput, ChildExits, World, threads, pipes
<1>21. CASE HelperExits
  BY <1>21 DEF TypeOK, HelperExits, World, threads, pipes, Helper
<1>22. CASE UNCHANGED vars
  BY <1>22 DEF TypeOK, vars, threads, pipes
<1> QED BY <1>1, <1>2, <1>3, <1>4, <1>5, <1>6, <1>7, <1>9, <1>10, <1>11, <1>12, <1>13, <1>14, <1>15,
           <1>16, <1>17, <1>18, <1>19, <1>20, <1>21, <1>22 DEF Next, Advance

\* The state of a capture is well typed.
THEOREM CaptureTyped == Spec => []TypeOK
BY InitTyped, NextTyped, PTL DEF Spec

-----------------------------------------------------------------------------
(* The teardown. *)

Gone == child.st = "reaped" /\ ~InGroup

\* Where the main thread can be for which reason; how an exception is counted.
Why ==
    /\ main.pc \in {"spawn", "start", "drain", "wait"} => main.why = "none" /\ ~main.failing
    /\ main.pc = "spawn" => child.st = "none"
    /\ main.pc = "flush" => main.why \in {"none", "timeout"}
    /\ main.pc \in Tearing => main.why # "none"
    /\ main.pending => raised >= 1
    /\ main.why = "raise" => Gone \/ raised >= 1

\* The group is gone when the teardown ends, unless a second exception cut it short.
Group ==
    /\ helper.group => mode.isolate
    /\ main.pc = "stragglers" => child.st = "reaped"
    /\ main.pc = "flush" /\ main.why = "timeout" => Gone
    /\ main.pc \in {"join", "done"} /\ main.why # "none" => Gone \/ raised >= 2

\* The cleanup command was skipped by an exception only: the first one brings it back.
Skipped == mode.cleanup /\ ~cleaned
Cleaning ==
    /\ Skipped /\ main.why = "raise" => raised >= 1
    /\ Skipped /\ main.why = "timeout" /\ main.failing => raised >= 1
    /\ Skipped /\ main.pc \in {"term", "grace", "stragglers"} =>
           (main.why = "timeout" /\ main.failing) \/ raised >= 2
    /\ Skipped /\ main.pc \in {"flush", "join", "done"} /\ main.why # "none" => raised >= 2

Teardown == TypeOK /\ Why /\ Group /\ Cleaning

LEMMA TeardownInit == Init => Teardown
<1> SUFFICES ASSUME Init PROVE Teardown
  OBVIOUS
<1>1. TypeOK
  BY InitTyped
<1>2. Why /\ Group /\ Cleaning
  BY DEF Init, Why, Group, Cleaning, Tearing, InGroup
<1> QED BY <1>1, <1>2 DEF Teardown

\* What a thread or the child does to a stream.
OnStream(s) == Reader(s) \/ Writes(s)

\* Once the group is gone it stays so: nothing spawns a second child.
LEMMA GoneStays == Teardown /\ Gone /\ [Next]_vars => Gone'
<1> SUFFICES ASSUME Teardown, Gone, [Next]_vars PROVE Gone'
  OBVIOUS
<1> USE DEF Gone, InGroup
<1>0. child \in Child /\ helper \in Helper
  BY DEF Teardown, TypeOK
<1>1. ~Spawn /\ ~Forks /\ ~ChildExits
  BY DEF Teardown, Why, Spawn, Forks, ChildExits
<1>2. ASSUME UNCHANGED <<child, helper>> PROVE Gone'
  BY <1>2
<1>3. CASE StartThreads \/ StartFails \/ Take \/ IdleTimeout \/ Cleanup \/ Flush \/ Join \/ Interrupt
  BY <1>2, <1>3 DEF StartThreads, StartFails, Take, IdleTimeout, Cleanup, Flush, Join, Interrupt
<1>4. CASE Wait \/ Term \/ Exited
  BY <1>0, <1>4 DEF Wait, Term, Exited, Reaped, Child
<1>5. CASE Kill \/ Stragglers
  BY <1>0, <1>5 DEF Kill, Stragglers, Killed, Helper, Child
<1>6. CASE ClosesOutput \/ HelperExits
  BY <1>0, <1>6 DEF ClosesOutput, HelperExits, Helper, Child
<1>7. CASE BrokenPipe \/ ReadsStdin \/ UNCHANGED vars
  BY <1>2, <1>7 DEF BrokenPipe, ReadsStdin, vars
<1>8. ASSUME NEW s \in Stream, OnStream(s) PROVE Gone'
  BY <1>0, <1>8 DEF OnStream, Reader, ReadPipe, PollFile, ReadFile, Writes, Still, Child
<1> QED BY <1>1, <1>3, <1>4, <1>5, <1>6, <1>7, <1>8 DEF Next, Advance, OnStream
Kept == Why /\ Group /\ Cleaning

\* The end of a teardown that found or made the group gone.
LEMMA StoppedKeeps ==
  ASSUME Teardown, main.pc \in {"term", "grace", "stragglers"}, Stopped, Gone',
         helper'.group = helper.group, UNCHANGED <<mode, cleaned, raised>>
  PROVE  Kept'
<1> USE DEF Teardown, Kept, Why, Group, Cleaning, Skipped, Tearing
<1>0. main \in Main
  BY DEF TypeOK
<1>1. CASE main.why = "timeout" /\ main.failing
  BY <1>0, <1>1 DEF Stopped, Stop, Main
<1>2. CASE main.why = "timeout" /\ ~main.failing
  BY <1>0, <1>2 DEF Stopped, Go, Main
<1>3. CASE main.why # "timeout"
  BY <1>0, <1>3 DEF Stopped, Go, Main
<1> QED BY <1>1, <1>2, <1>3

\* The main thread stays where it is, and the group gone if it was.
LEMMA ElsewhereKeeps ==
  ASSUME Teardown, [Next]_vars, UNCHANGED <<mode, main, cleaned, raised>>,
         helper'.group => helper.group \/ mode.isolate,
         child.st \in {"none", "reaped"} => child'.st = child.st
  PROVE  Kept'
<1>1. Gone => Gone'
  BY GoneStays
<1> HIDE DEF Gone
<1> QED BY <1>1 DEF Teardown, Kept, Why, Group, Cleaning, Skipped

LEMMA TeardownNext == Teardown /\ [Next]_vars => Kept'
<1> SUFFICES ASSUME Teardown, [Next]_vars PROVE Kept'
  OBVIOUS
<1>0. main \in Main /\ child \in Child /\ helper \in Helper /\ raised \in Nat /\ mode \in Mode /\ cleaned \in BOOLEAN
  BY ModesAssumption, BoundAssumption DEF Teardown, TypeOK
<1>1. Gone => Gone'
  BY GoneStays
<1>2. CASE Spawn
  <2>1. main.why = "none" /\ ~main.failing /\ (main.pending => raised >= 1) /\ (helper.group => mode.isolate)
    BY <1>2 DEF Teardown, Why, Group, Spawn
  <2> QED BY <1>0, <1>2, <2>1 DEF Spawn, Go, Kept, Why, Group, Cleaning, Skipped, Tearing, Main
<1>3. CASE StartThreads
  BY <1>0, <1>3 DEF Teardown, StartThreads, Go, Stop, Kept, Why, Group, Cleaning, Skipped, Tearing, Main
<1>4. CASE StartFails
  BY <1>0, <1>4 DEF Teardown, StartFails, Stop, Kept, Why, Group, Cleaning, Skipped, Tearing, Main
<1>5. CASE Take
  <2>1. UNCHANGED <<mode, child, helper, cleaned>> /\ main.pc = "drain" /\ raised' >= raised /\ raised' \in Nat
    BY <1>0, <1>5 DEF Take
  <2>2. CASE UNCHANGED main
    BY <1>0, <1>1, <2>1, <2>2 DEF Teardown, Kept, Why, Group, Cleaning, Skipped, Tearing
  <2>3. CASE raised' = raised + 1 /\ Stop("raise")
    BY <1>0, <1>1, <2>1, <2>3 DEF Teardown, Stop, Kept, Why, Group, Cleaning, Skipped, Tearing, Main
  <2>4. CASE Go("wait")
    BY <1>0, <1>1, <2>1, <2>4 DEF Teardown, Go, Kept, Why, Group, Cleaning, Skipped, Tearing, Main
  <2> QED BY <1>5, <2>2, <2>3, <2>4 DEF Take
<1>6. CASE IdleTimeout
  BY <1>0, <1>6 DEF Teardown, IdleTimeout, Kept, Why, Group, Cleaning, Skipped, Tearing, Main
<1>7. CASE Wait
  BY <1>0, <1>7 DEF Teardown, Wait, Go, Kept, Why, Group, Cleaning, Skipped, Tearing, Main
<1>8. CASE Cleanup
  <2>1. UNCHANGED <<mode, child, helper, raised>> /\ main.pc = "cleanup" /\ main'.pc = "term"
        /\ main'.why = main.why /\ main'.pending = main.pending /\ (mode.cleanup => cleaned')
    BY <1>0, <1>8 DEF Cleanup, Go, Main
  <2> QED BY <1>0, <1>1, <2>1 DEF Teardown, Kept, Why, Group, Cleaning, Skipped, Tearing
<1>9. CASE Term
  <2>1. UNCHANGED <<mode, helper, cleaned, raised>> /\ main.pc = "term" /\ (helper.group => mode.isolate)
    BY <1>9 DEF Term, Teardown, Group
  <2>2. CASE Stopped
    <3>1. Gone'
      BY <1>0, <1>9, <2>1, <2>2 DEF Term, Gone, InGroup, Reaped, Child, Go, Stopped, Stop, Main
    <3> QED BY <2>1, <2>2, <3>1, StoppedKeeps
  <2>3. CASE Go("grace") \/ (Go("stragglers") /\ child'.st = "reaped")
    BY <1>0, <1>1, <2>1, <2>3 DEF Teardown, Go, Kept, Why, Group, Cleaning, Skipped, Tearing, Main
  <2> QED BY <1>0, <1>9, <2>2, <2>3 DEF Term, Reaped, Child
<1>10. CASE Exited
  <2>1. UNCHANGED <<mode, helper, cleaned, raised>> /\ main.pc = "grace" /\ (helper.group => mode.isolate)
        /\ child'.st = "reaped"
    BY <1>0, <1>10 DEF Exited, Teardown, Group, Reaped, Child
  <2>2. CASE ~mode.isolate
    <3>1. Gone'
      BY <2>1, <2>2 DEF Gone, InGroup
    <3> QED BY <1>10, <2>1, <2>2, <3>1, StoppedKeeps DEF Exited
  <2>3. CASE mode.isolate
    BY <1>0, <1>1, <1>10, <2>1, <2>3 DEF Exited, Teardown, Go, Kept, Why, Group, Cleaning, Skipped, Tearing, Main
  <2> QED BY <2>2, <2>3
<1>11. CASE Kill
  <2>1. Gone' /\ helper'.group = helper.group
    BY <1>0, <1>11 DEF Kill, Killed, Gone, InGroup, Teardown, Group, Helper
  <2> QED BY <1>11, <2>1, StoppedKeeps DEF Kill
<1>12. CASE Stragglers
  <2>1. Gone' /\ helper'.group = helper.group
    BY <1>0, <1>12 DEF Stragglers, Killed, Gone, InGroup, Teardown, Group, Helper
  <2> QED BY <1>12, <2>1, StoppedKeeps DEF Stragglers
<1>13. CASE Flush
  <2>1. UNCHANGED <<mode, child, helper, cleaned>> /\ main.pc = "flush"
    BY <1>13 DEF Flush
  <2>2. CASE Go("join") /\ UNCHANGED raised
    BY <1>0, <1>1, <2>1, <2>2 DEF Teardown, Go, Kept, Why, Group, Cleaning, Skipped, Tearing, Main
  <2>3. CASE raised' = raised + 1 /\ Stop("raise")
    BY <1>0, <2>1, <2>3 DEF Teardown, Stop, Kept, Why, Group, Cleaning, Skipped, Tearing, Main
  <2> QED BY <1>13, <2>2, <2>3 DEF Flush
<1>14. CASE Join
  BY <1>0, <1>1, <1>14 DEF Join, Teardown, Go, Kept, Why, Group, Cleaning, Skipped, Tearing, Main
<1>15. CASE Interrupt
  <2>1. UNCHANGED <<mode, child, helper, cleaned>> /\ raised' = raised + 1
    BY <1>15 DEF Interrupt
  <2>2. CASE main.pc = "join" /\ main' = [main EXCEPT !.pc = "done", !.failing = TRUE]
    BY <1>0, <1>1, <2>1, <2>2 DEF Teardown, Kept, Why, Group, Cleaning, Skipped, Tearing, Main
  <2>3. CASE main' = [main EXCEPT !.pending = TRUE]
    BY <1>0, <1>1, <2>1, <2>3 DEF Teardown, Kept, Why, Group, Cleaning, Skipped, Tearing, Main
  <2>4. CASE Stop("raise")
    BY <1>0, <1>1, <2>1, <2>4 DEF Teardown, Stop, Kept, Why, Group, Cleaning, Skipped, Tearing, Main
  <2>5. CASE main.pc = "cleanup" /\ main.why # "start" /\ main' = [main EXCEPT !.pc = "term", !.failing = TRUE]
    BY <1>0, <1>1, <2>1, <2>5 DEF Teardown, Kept, Why, Group, Cleaning, Skipped, Tearing, Main
  <2>6. CASE main.pc \in {"term", "grace", "stragglers"} /\ main.why \notin {"start", "timeout"} /\ Go("join")
    BY <1>0, <1>1, <2>1, <2>6 DEF Teardown, Go, Kept, Why, Group, Cleaning, Skipped, Tearing, Main
  <2> QED BY <1>0, <1>15, <2>2, <2>3, <2>4, <2>5, <2>6 DEF Interrupt, Tearing
<1>16. CASE BrokenPipe \/ ReadsStdin \/ UNCHANGED vars
  BY <1>16, ElsewhereKeeps DEF BrokenPipe, ReadsStdin, vars
<1>17. CASE Forks
  BY <1>0, <1>17, ElsewhereKeeps DEF Forks, World, Helper
<1>18. CASE ClosesOutput \/ ChildExits \/ HelperExits
  BY <1>0, <1>18, ElsewhereKeeps DEF ClosesOutput, ChildExits, HelperExits, World, Child, Helper
<1>19. ASSUME NEW s \in Stream, OnStream(s) PROVE Kept'
  BY <1>0, <1>19, ElsewhereKeeps DEF OnStream, Reader, ReadPipe, PollFile, ReadFile, Writes, Still, World, Child
<1> QED BY <1>2, <1>3, <1>4, <1>5, <1>6, <1>7, <1>8, <1>9, <1>10, <1>11, <1>12, <1>13, <1>14, <1>15,
           <1>16, <1>17, <1>18, <1>19 DEF Next, Advance, OnStream

THEOREM TeardownHolds == Spec => []Teardown
<1>1. Teardown /\ [Next]_vars => Teardown'
  BY NextTyped, TeardownNext DEF Teardown, Kept
<1> QED BY <1>1, TeardownInit, PTL DEF Spec

\* A call torn down leaves no process of the child's group behind, unless a second
\* exception came: at most one interrupt or failing callback, however the child and
\* its helper answer signals.
THEOREM GroupEnds == Spec => [](raised <= 1 => NoOrphan)
<1>1. Teardown => (raised <= 1 => NoOrphan)
  <2> SUFFICES ASSUME Teardown, raised <= 1 PROVE NoOrphan
    OBVIOUS
  <2>1. raised \in Nat
    BY BoundAssumption DEF Teardown, TypeOK
  <2> QED BY <2>1 DEF Teardown, Group, Gone, NoOrphan, TornDown
<1> QED BY <1>1, TeardownHolds, PTL

\* Its cleanup command has run to its end, or could not be started.
THEOREM CleanupAlwaysRan == Spec => [](raised <= 1 => CleanupRan)
<1>1. Teardown => (raised <= 1 => CleanupRan)
  <2> SUFFICES ASSUME Teardown, raised <= 1 PROVE CleanupRan
    OBVIOUS
  <2>1. raised \in Nat
    BY BoundAssumption DEF Teardown, TypeOK
  <2> QED BY <2>1 DEF Teardown, Cleaning, Skipped, CleanupRan, TornDown
<1> QED BY <1>1, TeardownHolds, PTL

-----------------------------------------------------------------------------
(* What is captured. *)

Messages == Stream \X {"chunk", "eof"}

\* The chunks of a stream in the queue, and those the main thread has or will have.
ChunksIn(q, s) == {i \in DOMAIN q : q[i] = <<s, "chunk">>}
Captured(s) == got[s] + Cardinality(ChunksIn(queue, s))

\* Nothing more can be owed: nobody holds the pipe, or the child no longer runs.
Finished(s) == child.st # "none" /\ IF InFile(s) THEN child.st # "run" ELSE ~Held(s)
Ends(s) == s \in closed \/ \E i \in DOMAIN queue : queue[i] = <<s, "eof">>

\* A chunk owed is in the pipe, in the queue or taken; a reader ends when nothing is
\* left and nothing more can be owed, and its end of file is the last of its messages.
StreamInv(s) ==
    /\ owed[s] <= Captured(s) + unread[s]
    /\ reader[s] \in {"poll", "live", "last"} => InFile(s)
    /\ reader[s] = "run" => ~InFile(s)
    /\ reader[s] # "off" => child.st # "none"
    /\ reader[s] = "last" => child.st # "run"
    /\ reader[s] = "done" => Finished(s) /\ owed[s] <= Captured(s)
    /\ Ends(s) => reader[s] = "done"
    /\ s \in closed => \A i \in DOMAIN queue : queue[i][1] # s
    /\ \A i, j \in DOMAIN queue : i < j /\ queue[i] = <<s, "eof">> => queue[j][1] # s

\* The main thread leaves the loop without a teardown once both streams are closed.
MainInv ==
    /\ main.pc = "spawn" => child.st = "none"
    /\ main.pc \in {"spawn", "start"} => reader = [s \in Stream |-> "off"]
    /\ main.pc \notin {"spawn", "done"} => child.st # "none"
    /\ main.why = "none" /\ main.pc \in {"wait", "flush", "join", "done"} => closed = Stream \/ child.st = "none"
    /\ main.why = "timeout" => main.timedOut
    /\ main.pc \in {"cleanup", "term", "grace", "stragglers"} => main.why # "none"
    /\ child.st = "none" => ~child.open /\ helper.st = "none"

CaptureInv == TypeOK /\ MainInv /\ \A s \in Stream : StreamInv(s)

LEMMA ChunksFinite ==
  ASSUME NEW q \in Seq(Messages), NEW s
  PROVE  IsFiniteSet(ChunksIn(q, s)) /\ Cardinality(ChunksIn(q, s)) \in Nat
<1>1. ChunksIn(q, s) \in SUBSET (1..Len(q)) /\ Len(q) \in Nat
  BY DEF ChunksIn
<1>2. IsFiniteSet(1..Len(q))
  BY <1>1, FS_Interval
<1> QED BY <1>1, <1>2, FS_Subset, FS_CardinalityType

LEMMA ChunkAdded ==
  ASSUME NEW q \in Seq(Messages), NEW m \in Messages, NEW s
  PROVE  Cardinality(ChunksIn(Append(q, m), s)) =
             Cardinality(ChunksIn(q, s)) + (IF m = <<s, "chunk">> THEN 1 ELSE 0)
<1> DEFINE n == Len(q) + 1
<1>1. Len(q) \in Nat /\ DOMAIN q = 1..Len(q) /\ DOMAIN Append(q, m) = 1..n
      /\ Append(q, m)[n] = m /\ \A i \in 1..Len(q) : Append(q, m)[i] = q[i]
  OBVIOUS
<1>2. n \notin ChunksIn(q, s)
  BY <1>1 DEF ChunksIn
<1>3. ChunksIn(Append(q, m), s) = IF m = <<s, "chunk">> THEN ChunksIn(q, s) \cup {n} ELSE ChunksIn(q, s)
  <2> DEFINE r == Append(q, m)
  <2>1. DOMAIN r = DOMAIN q \cup {n} /\ n \notin DOMAIN q /\ r[n] = m /\ \A i \in DOMAIN q : r[i] = q[i]
    BY <1>1
  <2> HIDE DEF n, r
  <2>2. ChunksIn(r, s) = IF m = <<s, "chunk">> THEN ChunksIn(q, s) \cup {n} ELSE ChunksIn(q, s)
    BY <2>1, Zenon DEF ChunksIn
  <2> QED BY <2>2 DEF r
<1>4. Cardinality(ChunksIn(q, s) \cup {n}) = Cardinality(ChunksIn(q, s)) + 1
  BY <1>2, ChunksFinite, FS_AddElement
<1>5. Cardinality(ChunksIn(q, s)) \in Nat
  BY ChunksFinite
<1> HIDE DEF n
<1>6. CASE m = <<s, "chunk">>
  BY <1>3, <1>4, <1>6
<1>7. CASE m # <<s, "chunk">>
  BY <1>3, <1>5, <1>7
<1> QED BY <1>6, <1>7

LEMMA ChunkTaken ==
  ASSUME NEW q \in Seq(Messages), q # <<>>, NEW s
  PROVE  Cardinality(ChunksIn(q, s)) =
             Cardinality(ChunksIn(Tail(q), s)) + (IF Head(q) = <<s, "chunk">> THEN 1 ELSE 0)
<1> DEFINE C == ChunksIn(q, s) \ {1}
           D == ChunksIn(Tail(q), s)
           f == [i \in D |-> i + 1]
<1>1. Len(q) \in Nat \ {0} /\ DOMAIN q = 1..Len(q) /\ Head(q) = q[1] /\ Tail(q) \in Seq(Messages)
      /\ DOMAIN Tail(q) = 1..(Len(q) - 1) /\ \A i \in 1..(Len(q) - 1) : Tail(q)[i] = q[i + 1]
  OBVIOUS
<1>2. f \in Bijection(D, C)
  <2>1. \A i \in D : i \in Nat /\ i + 1 \in C
    BY <1>1 DEF ChunksIn
  <2>2. \A j \in C : j - 1 \in D /\ (j - 1) + 1 = j
    BY <1>1 DEF ChunksIn
  <2>3. f \in [D -> C] /\ \A i \in D : f[i] = i + 1
    BY <2>1
  <2>4. \A i, j \in D : f[i] = f[j] => i = j
    BY <2>1, <2>3
  <2>5. \A j \in C : \E i \in D : f[i] = j
    BY <2>2, <2>3
  <2> HIDE DEF f, C, D
  <2> QED BY <2>3, <2>4, <2>5 DEF Bijection, Injection, Surjection, IsInjective
<1>3. IsFiniteSet(ChunksIn(q, s)) /\ IsFiniteSet(D) /\ Cardinality(D) \in Nat /\ Cardinality(ChunksIn(q, s)) \in Nat
  BY <1>1, ChunksFinite
<1>4. Cardinality(C) = Cardinality(D)
  <2> HIDE DEF f, C, D
  <2>1. ExistsBijection(D, C)
    BY <1>2 DEF ExistsBijection
  <2> QED BY <1>3, <2>1, FS_Bijection
<1>5. Cardinality(C) = IF 1 \in ChunksIn(q, s) THEN Cardinality(ChunksIn(q, s)) - 1 ELSE Cardinality(ChunksIn(q, s))
  BY <1>3, FS_RemoveElement
<1>6. 1 \in ChunksIn(q, s) <=> Head(q) = <<s, "chunk">>
  BY <1>1 DEF ChunksIn
<1>7. Cardinality(ChunksIn(q, s)) = IF 1 \in ChunksIn(q, s) THEN Cardinality(D) + 1 ELSE Cardinality(D)
  <2> DEFINE all == Cardinality(ChunksIn(q, s))
             left == Cardinality(D)
             kept == Cardinality(C)
  <2>1. all \in Nat /\ left \in Nat /\ kept = left
    BY <1>3, <1>4
  <2>2. kept = IF 1 \in ChunksIn(q, s) THEN all - 1 ELSE all
    BY <1>5
  <2> HIDE DEF all, left, kept
  <2>3. all = IF 1 \in ChunksIn(q, s) THEN left + 1 ELSE left
    BY <2>1, <2>2
  <2> QED BY <2>3 DEF all, left
<1> HIDE DEF C, D
<1>8. CASE Head(q) = <<s, "chunk">>
  BY <1>6, <1>7, <1>8 DEF D
<1>9. CASE Head(q) # <<s, "chunk">>
  BY <1>3, <1>6, <1>7, <1>9 DEF D
<1> QED BY <1>8, <1>9

LEMMA CaptureInit == Init => CaptureInv
<1> SUFFICES ASSUME Init PROVE CaptureInv
  OBVIOUS
<1>1. MainInv
  BY DEF Init, MainInv
<1>2. ASSUME NEW s \in Stream PROVE StreamInv(s)
  <2>1. ChunksIn(queue, s) = {} /\ ~Ends(s)
    BY DEF Init, ChunksIn, Ends
  <2>2. Cardinality(ChunksIn(queue, s)) = 0
    BY <2>1, FS_EmptySet
  <2>3. Captured(s) = 0
    BY <2>2 DEF Init, Captured
  <2> QED BY <2>1, <2>3 DEF Init, StreamInv
<1> QED BY <1>1, <1>2, InitTyped DEF CaptureInv

-----------------------------------------------------------------------------
(* Its steps. *)

\* What the main thread relies on.
LEMMA MainNext == CaptureInv /\ [Next]_vars => MainInv'
<1> SUFFICES ASSUME CaptureInv, [Next]_vars PROVE MainInv'
  OBVIOUS
<1>0. MainInv /\ main \in Main /\ child \in Child /\ helper \in Helper
  BY DEF CaptureInv, TypeOK
<1> USE DEF MainInv
<1>1. CASE Spawn
  BY <1>0, <1>1 DEF Spawn, Go, Main, Child, threads
<1>2. CASE StartThreads
  BY <1>0, <1>2 DEF StartThreads, Go, Stop, Main
<1>3. CASE StartFails
  BY <1>0, <1>3 DEF StartFails, Stop, Main
<1>4. CASE Take
  <2>1. main.pc = "drain" /\ UNCHANGED <<child, helper, reader>>
    BY <1>4 DEF Take
  <2>2. CASE UNCHANGED main
    BY <1>0, <2>1, <2>2
  <2>3. CASE Stop("raise")
    BY <1>0, <2>1, <2>3 DEF Stop, Main
  <2>4. CASE Go("wait") /\ closed' = Stream
    BY <1>0, <2>1, <2>4 DEF Go, Main
  <2> QED BY <1>4, <2>2, <2>3, <2>4 DEF Take
<1>5. CASE IdleTimeout
  BY <1>0, <1>5 DEF IdleTimeout, Main
<1>6. CASE Wait
  BY <1>0, <1>6 DEF Wait, Go, Reaped, Main, Child
<1>7. CASE Cleanup
  BY <1>0, <1>7 DEF Cleanup, Go, Main
<1>8. ASSUME main.pc \in {"term", "grace", "stragglers"}, Stopped, UNCHANGED <<reader, closed>>, child'.st = "reaped"
      PROVE  MainInv'
  BY <1>0, <1>8 DEF Stopped, Stop, Go, Main
<1>9. CASE Term
  <2>1. UNCHANGED <<reader, closed, helper>> /\ main.pc = "term" /\ child' \in Child /\ child.st # "none"
        /\ (child.st = "run" => child' = child) /\ (child.st # "run" => child'.st = "reaped")
    BY <1>0, <1>9 DEF Term, Reaped, Child, threads
  <2>2. CASE Stopped /\ child.st # "run"
    BY <1>8, <2>1, <2>2
  <2>3. CASE Go("grace") \/ Go("stragglers")
    BY <1>0, <2>1, <2>3 DEF Go, Main
  <2> QED BY <1>9, <2>2, <2>3 DEF Term
<1>10. CASE Exited
  <2>1. UNCHANGED <<reader, closed, helper>> /\ main.pc = "grace" /\ child'.st = "reaped"
    BY <1>0, <1>10 DEF Exited, Reaped, Child, threads
  <2>2. CASE Stopped
    BY <1>8, <2>1, <2>2
  <2>3. CASE Go("stragglers")
    BY <1>0, <2>1, <2>3 DEF Go, Main
  <2> QED BY <1>10, <2>2, <2>3 DEF Exited
<1>11. CASE Kill
  BY <1>8, <1>11 DEF Kill, threads
<1>12. CASE Stragglers
  <2>1. UNCHANGED <<reader, closed, child>> /\ main.pc = "stragglers" /\ Stopped
    BY <1>12 DEF Stragglers, threads
  <2> QED BY <1>0, <2>1 DEF Stopped, Stop, Go, Main
<1>13. CASE Flush
  BY <1>0, <1>13 DEF Flush, Go, Stop, Main
<1>14. CASE Join
  BY <1>0, <1>14 DEF Join, Go, Main
<1>15. CASE Interrupt
  BY <1>0, <1>15 DEF Interrupt, Tearing, Go, Stop, Main, threads
<1>16. ASSUME UNCHANGED <<main, closed>>, main.pc \in {"spawn", "start"} => reader' = reader,
              child'.st = "none" <=> child.st = "none", child.st = "none" => UNCHANGED <<child, helper>>
       PROVE  MainInv'
  BY <1>0, <1>16
<1>17. CASE BrokenPipe \/ ReadsStdin \/ UNCHANGED vars
  BY <1>16, <1>17 DEF BrokenPipe, ReadsStdin, vars, threads
<1>18. CASE Forks
  BY <1>0, <1>16, <1>18 DEF Forks, World, threads
<1>19. CASE ClosesOutput \/ ChildExits \/ HelperExits
  BY <1>0, <1>16, <1>19 DEF ClosesOutput, ChildExits, HelperExits, World, threads, Child
<1>20. ASSUME NEW s \in Stream, OnStream(s) PROVE MainInv'
  <2>1. CASE Writes(s)
    BY <1>16, <2>1 DEF Writes, World, threads
  <2>2. CASE Reader(s)
    <3>1. UNCHANGED <<main, closed, helper>> /\ main.pc \notin {"spawn", "start"}
      BY <1>0, <2>2 DEF Reader, ReadPipe, PollFile, ReadFile, Still
    <3>2. child' = child \/ (child.st = "exited" /\ child'.st = "reaped")
      BY <1>0, <2>2 DEF Reader, ReadPipe, PollFile, ReadFile, Child
    <3> QED BY <1>16, <3>1, <3>2
  <2> QED BY <1>20, <2>1, <2>2 DEF OnStream
<1> QED BY <1>1, <1>2, <1>3, <1>4, <1>5, <1>6, <1>7, <1>9, <1>10, <1>11, <1>12, <1>13, <1>14, <1>15,
           <1>17, <1>18, <1>19, <1>20 DEF Next, Advance, OnStream

\* Once nothing more can be owed to a stream, nothing more ever can.
LEMMA FinishedStays ==
  ASSUME CaptureInv, [Next]_vars, NEW s \in Stream, Finished(s)
  PROVE  Finished(s)'
<1> USE DEF Finished, Held, InFile
<1>0. child \in Child /\ helper \in Helper /\ MainInv
  BY DEF CaptureInv, TypeOK
<1>1. ~Spawn
  BY <1>0 DEF Spawn, MainInv
<1>2. ASSUME UNCHANGED <<mode, child, helper>> PROVE Finished(s)'
  BY <1>2
<1>3. CASE StartThreads \/ StartFails \/ Take \/ IdleTimeout \/ Cleanup \/ Flush \/ Join \/ Interrupt
  BY <1>2, <1>3 DEF StartThreads, StartFails, Take, IdleTimeout, Cleanup, Flush, Join, Interrupt
<1>4. CASE Wait \/ Term \/ Exited
  BY <1>0, <1>4 DEF Wait, Term, Exited, Reaped, Child
<1>5. CASE Kill \/ Stragglers
  BY <1>0, <1>5 DEF Kill, Stragglers, Killed, InGroup, Helper, Child
<1>6. CASE ClosesOutput \/ ChildExits \/ HelperExits
  BY <1>0, <1>6 DEF ClosesOutput, ChildExits, HelperExits, World, Helper, Child
<1>7. CASE Forks
  BY <1>0, <1>7 DEF Forks, World, Helper, Child
<1>8. CASE BrokenPipe \/ ReadsStdin \/ UNCHANGED vars
  BY <1>2, <1>8 DEF BrokenPipe, ReadsStdin, vars
<1>9. ASSUME NEW t \in Stream, OnStream(t) PROVE Finished(s)'
  BY <1>0, <1>9 DEF OnStream, Reader, ReadPipe, PollFile, ReadFile, Writes, Still, World, Child
<1> QED BY <1>1, <1>3, <1>4, <1>5, <1>6, <1>7, <1>8, <1>9 DEF Next, Advance, OnStream

\* A step that moves nothing between the pipe, the queue and the main thread.
LEMMA StillCaptured ==
  ASSUME CaptureInv, [Next]_vars, NEW s \in Stream, UNCHANGED <<mode, queue, got, closed, unread, owed>>,
         reader'[s] = reader[s], child.st # "none" => child'.st # "none",
         child.st # "run" => child'.st # "run" \/ child.st = "none"
  PROVE  StreamInv(s)'
<1>1. Finished(s) => Finished(s)'
  BY FinishedStays
<1>2. StreamInv(s)
  BY DEF CaptureInv
<1>3. (Captured(s) = Captured(s)') /\ (Ends(s) <=> Ends(s)') /\ (InFile(s) <=> InFile(s)')
  BY DEF Captured, Ends, InFile
<1>4. reader[s] = "last" => child'.st # "run"
  BY <1>2 DEF StreamInv
<1> QED BY <1>1, <1>2, <1>3, <1>4 DEF StreamInv

\* A message of another stream is added.
LEMMA OthersAdded ==
  ASSUME CaptureInv, [Next]_vars, NEW s \in Stream, NEW t \in Stream, NEW what \in {"chunk", "eof"},
         s # t, Put(t, what), UNCHANGED <<mode, got, closed, child>>,
         reader'[s] = reader[s], unread'[s] = unread[s], owed'[s] = owed[s]
  PROVE  StreamInv(s)'
<1>1. Finished(s) => Finished(s)'
  BY FinishedStays
<1>2. StreamInv(s) /\ queue \in Seq(Messages) /\ <<t, what>> \in Messages
  BY DEF CaptureInv, TypeOK, Messages
<1> DEFINE n == Len(queue) + 1
<1>3. DOMAIN queue' = DOMAIN queue \cup {n} /\ queue'[n] = <<t, what>> /\ (\A i \in DOMAIN queue : queue'[i] = queue[i])
      /\ \A k \in DOMAIN queue : k < n
  BY <1>2 DEF Put
<1>4. Cardinality(ChunksIn(queue', s)) = Cardinality(ChunksIn(queue, s))
  <2>1. Cardinality(ChunksIn(queue, s)) \in Nat /\ <<t, what>> # <<s, "chunk">>
    BY <1>2, ChunksFinite
  <2> QED BY <1>2, <2>1, ChunkAdded DEF Put
<1>5. Captured(s)' = Captured(s)
  BY <1>4 DEF Captured
<1> HIDE DEF n
<1>6. Ends(s) <=> Ends(s)'
  <2>1. <<t, what>> # <<s, "eof">>
    OBVIOUS
  <2> QED BY <1>3, <2>1 DEF Ends
<1>7. s \in closed' => \A i \in DOMAIN queue' : queue'[i][1] # s
  BY <1>2, <1>3 DEF StreamInv
<1>8. \A i, j \in DOMAIN queue' : i < j /\ queue'[i] = <<s, "eof">> => queue'[j][1] # s
  BY <1>2, <1>3 DEF StreamInv
<1>9. (InFile(s) <=> InFile(s)') /\ child' = child
  BY DEF InFile
<1> QED BY <1>1, <1>2, <1>5, <1>6, <1>7, <1>8, <1>9 DEF StreamInv

\* Its reader moves a chunk of the stream into the queue.
LEMMA ChunkMoved ==
  ASSUME CaptureInv, [Next]_vars, NEW s \in Stream, reader[s] \in {"run", "live", "last"}, unread[s] > 0, Put(s, "chunk"),
         unread'[s] = unread[s] - 1, UNCHANGED <<mode, got, closed, owed, child>>,
         reader'[s] = reader[s] \/ (reader[s] \in {"live", "last"} /\ reader'[s] = "poll")
  PROVE  StreamInv(s)'
<1>2. StreamInv(s) /\ queue \in Seq(Messages) /\ <<s, "chunk">> \in Messages /\ ~Ends(s)
      /\ got[s] \in Nat /\ unread[s] \in Nat /\ owed[s] \in Nat
  BY DEF CaptureInv, TypeOK, Messages, StreamInv
<1> DEFINE n == Len(queue) + 1
<1>3. DOMAIN queue' = DOMAIN queue \cup {n} /\ queue'[n] = <<s, "chunk">> /\ (\A i \in DOMAIN queue : queue'[i] = queue[i])
  BY <1>2 DEF Put
<1> DEFINE had == Cardinality(ChunksIn(queue, s))
           has == Cardinality(ChunksIn(queue', s))
<1>4. had \in Nat /\ has = had + 1
  BY <1>2, ChunksFinite, ChunkAdded DEF Put
<1> HIDE DEF n
<1>5. owed'[s] <= Captured(s)' + unread'[s]
  <2>1. owed[s] <= (got[s] + had) + unread[s]
    BY <1>2 DEF StreamInv, Captured
  <2>2. Captured(s)' = got[s] + has
    BY DEF Captured
  <2> HIDE DEF had, has
  <2>3. got[s] \in Nat /\ unread[s] \in Nat /\ owed[s] \in Nat
    BY <1>2
  <2>4. owed[s] <= (got[s] + has) + (unread[s] - 1)
    BY <1>4, <2>1, <2>3
  <2> QED BY <2>2, <2>4
<1> HIDE DEF had, has
<1>6. ~Ends(s)'
  BY <1>2, <1>3 DEF Ends
<1>7. ~(s \in closed') /\ \A i \in DOMAIN queue' : queue'[i] # <<s, "eof">>
  BY <1>6 DEF Ends
<1>8. (InFile(s) <=> InFile(s)') /\ child' = child
  BY DEF InFile
<1> QED BY <1>2, <1>5, <1>6, <1>7, <1>8 DEF StreamInv

\* Its reader found the end of the stream.
LEMMA EndAdded ==
  ASSUME CaptureInv, [Next]_vars, NEW s \in Stream, reader[s] \in {"run", "live", "last"}, unread[s] = 0, Finished(s),
         Put(s, "eof"), reader'[s] = "done", UNCHANGED <<mode, got, closed, owed, unread, child>>
  PROVE  StreamInv(s)'
<1>1. Finished(s)'
  BY FinishedStays
<1>2. StreamInv(s) /\ queue \in Seq(Messages) /\ <<s, "eof">> \in Messages /\ ~Ends(s)
      /\ got[s] \in Nat /\ unread[s] \in Nat /\ owed[s] \in Nat
  BY DEF CaptureInv, TypeOK, Messages, StreamInv
<1> DEFINE n == Len(queue) + 1
<1>3. DOMAIN queue' = DOMAIN queue \cup {n} /\ queue'[n] = <<s, "eof">> /\ (\A i \in DOMAIN queue : queue'[i] = queue[i])
      /\ n \in Nat /\ \A k \in DOMAIN queue : k \in Nat /\ k < n
  BY <1>2 DEF Put
<1>4. Captured(s)' = Captured(s) /\ Captured(s) \in Nat
  <2>1. Cardinality(ChunksIn(queue, s)) \in Nat /\ <<s, "eof">> # <<s, "chunk">>
    BY <1>2, ChunksFinite
  <2>2. Cardinality(ChunksIn(queue', s)) = Cardinality(ChunksIn(queue, s))
    BY <1>2, <2>1, ChunkAdded DEF Put
  <2> QED BY <1>2, <2>1, <2>2 DEF Captured
<1> HIDE DEF n
<1>5. owed'[s] <= Captured(s)' /\ owed'[s] <= Captured(s)' + unread'[s]
  BY <1>2, <1>4 DEF StreamInv
<1>6. \A i, j \in DOMAIN queue' : i < j /\ queue'[i] = <<s, "eof">> => queue'[j][1] # s
  <2> SUFFICES ASSUME NEW i \in DOMAIN queue', NEW j \in DOMAIN queue', i < j, queue'[i] = <<s, "eof">>
               PROVE  FALSE
    OBVIOUS
  <2>1. i = n
    BY <1>2, <1>3 DEF Ends
  <2> QED BY <1>2, <1>3, <2>1
<1>7. s \notin closed' /\ child'.st # "none"
  BY <1>2 DEF Ends, Finished
<1> QED BY <1>1, <1>5, <1>6, <1>7 DEF StreamInv

\* A process writes a chunk.
LEMMA ChunkWritten ==
  ASSUME CaptureInv, [Next]_vars, NEW s \in Stream, NEW t \in Stream, Writes(t)
  PROVE  StreamInv(s)'
<1>0. UNCHANGED <<mode, reader, queue, got, closed, child>>
  BY DEF Writes, World, threads
<1>1. Finished(s) => Finished(s)'
  BY FinishedStays
<1>2. StreamInv(s) /\ got[s] \in Nat /\ unread \in [Stream -> Nat] /\ owed \in [Stream -> Nat] /\ queue \in Seq(Messages)
  BY DEF CaptureInv, TypeOK, Messages
<1>3. Captured(s)' = Captured(s) /\ Captured(s) \in Nat /\ (Ends(s) <=> Ends(s)') /\ (InFile(s) <=> InFile(s)')
  BY <1>0, <1>2, ChunksFinite DEF Captured, Ends, InFile
<1>4. owed'[s] <= Captured(s) + unread'[s]
  <2>1. CASE s = t
    <3>1. unread'[s] = unread[s] + 1 /\ owed'[s] \in {owed[s], owed[s] + 1}
      BY <1>2, <2>1 DEF Writes
    <3>2. owed[s] <= Captured(s) + unread[s] /\ owed[s] \in Nat /\ unread[s] \in Nat
      BY <1>2 DEF StreamInv
    <3> QED BY <1>3, <3>1, <3>2
  <2>2. CASE s # t
    BY <1>2, <2>2 DEF Writes, StreamInv
  <2> QED BY <2>1, <2>2
<1>5. Finished(s) => owed'[s] = owed[s]
  <2>1. CASE s = t
    BY <1>2, <2>1 DEF Writes, Finished
  <2>2. CASE s # t
    BY <1>2, <2>2 DEF Writes
  <2> QED BY <2>1, <2>2
<1> QED BY <1>0, <1>1, <1>2, <1>3, <1>4, <1>5 DEF StreamInv

\* The main thread takes the first message.
LEMMA MessageTaken ==
  ASSUME CaptureInv, [Next]_vars, Take, NEW s \in Stream
  PROVE  StreamInv(s)'
<1>0. UNCHANGED <<mode, reader, child, unread, owed>> /\ queue # <<>> /\ queue' = Tail(queue)
  BY DEF Take, pipes
<1>1. Finished(s) => Finished(s)'
  BY FinishedStays
<1>2. StreamInv(s) /\ queue \in Seq(Messages) /\ got \in [Stream -> Nat] /\ unread[s] \in Nat /\ owed[s] \in Nat
  BY DEF CaptureInv, TypeOK, Messages
<1> DEFINE m == Head(queue)
<1>3. Len(queue) \in Nat \ {0} /\ DOMAIN queue = 1..Len(queue) /\ queue[1] = m /\ m \in Messages
      /\ DOMAIN queue' = 1..(Len(queue) - 1) /\ (\A i \in 1..(Len(queue) - 1) : queue'[i] = queue[i + 1])
  BY <1>0, <1>2
<1> DEFINE had == Cardinality(ChunksIn(queue, s))
           has == Cardinality(ChunksIn(queue', s))
<1>4. had \in Nat /\ has \in Nat /\ had = has + (IF m = <<s, "chunk">> THEN 1 ELSE 0)
  <2>1. queue' \in Seq(Messages)
    BY <1>0, <1>2
  <2> QED BY <1>0, <1>2, <2>1, ChunksFinite, ChunkTaken
<1>5. got'[s] \in Nat /\ got'[s] = got[s] + (IF m = <<s, "chunk">> THEN 1 ELSE 0)
  <2>1. CASE m[2] = "chunk"
    <3>1. got' = [got EXCEPT ![m[1]] = @ + 1] /\ m[1] \in Stream /\ m = <<m[1], "chunk">>
      BY <1>3, <2>1 DEF Take, Messages
    <3> HIDE DEF m
    <3>2. CASE m[1] = s
      BY <1>2, <3>1, <3>2
    <3>3. CASE m[1] # s
      <4>1. m # <<s, "chunk">>
        BY <3>3
      <4> QED BY <1>2, <3>1, <3>3, <4>1
    <3> QED BY <3>2, <3>3
  <2>2. CASE m[2] # "chunk"
    <3>1. got' = got /\ m # <<s, "chunk">>
      BY <1>3, <2>2 DEF Take
    <3> QED BY <1>2, <3>1
  <2> QED BY <2>1, <2>2
<1>6. Captured(s)' = Captured(s)
  <2>1. Captured(s) = got[s] + had /\ Captured(s)' = got'[s] + has
    BY DEF Captured
  <2>2. got[s] \in Nat
    BY <1>2
  <2> HIDE DEF had, has, m
  <2> QED BY <1>4, <1>5, <2>1, <2>2
<1>7. closed' = closed \/ (m[2] = "eof" /\ closed' = closed \cup {m[1]})
  BY DEF Take
<1>8. s \in closed' => s \in closed \/ m = <<s, "eof">>
  BY <1>3, <1>7 DEF Messages
<1> HIDE DEF m, had, has
<1>9. Ends(s)' => Ends(s)
  BY <1>3, <1>8 DEF Ends
<1>10. \A i \in DOMAIN queue' : i + 1 \in DOMAIN queue /\ queue'[i] = queue[i + 1] /\ 1 < i + 1
  BY <1>3
<1>11. ASSUME s \in closed', NEW i \in DOMAIN queue' PROVE queue'[i][1] # s
  <2>1. CASE s \in closed
    BY <1>2, <1>10, <2>1 DEF StreamInv
  <2>2. CASE m = <<s, "eof">>
    <3>1. 1 \in DOMAIN queue /\ queue[1] = <<s, "eof">>
      BY <1>3, <2>2
    <3> QED BY <1>2, <1>10, <3>1 DEF StreamInv
  <2> QED BY <1>8, <1>11, <2>1, <2>2
<1>12. ASSUME NEW i \in DOMAIN queue', NEW j \in DOMAIN queue', i < j, queue'[i] = <<s, "eof">>
       PROVE  queue'[j][1] # s
  <2>1. i + 1 < j + 1
    BY <1>3, <1>12
  <2> QED BY <1>2, <1>10, <1>12, <2>1 DEF StreamInv
<1>13. InFile(s) <=> InFile(s)'
  BY <1>0 DEF InFile
<1> QED BY <1>0, <1>1, <1>2, <1>6, <1>9, <1>11, <1>12, <1>13 DEF StreamInv

\* The threads start with empty pipes and an empty queue.
LEMMA ThreadStarted ==
  ASSUME CaptureInv, [Next]_vars, NEW s \in Stream, main.pc = "start",
         UNCHANGED <<mode, queue, got, closed, unread, owed, child>>,
         reader'[s] \in {"off", IF InFile(s) THEN "poll" ELSE "run"}
  PROVE  StreamInv(s)'
<1>1. StreamInv(s) /\ reader[s] = "off" /\ child.st # "none"
  BY DEF CaptureInv, MainInv
<1>2. (Captured(s) = Captured(s)') /\ (Ends(s) <=> Ends(s)') /\ (InFile(s) <=> InFile(s)')
  BY DEF Captured, Ends, InFile
<1> QED BY <1>1, <1>2 DEF StreamInv

LEMMA StreamNext == CaptureInv /\ [Next]_vars => \A s \in Stream : StreamInv(s)'
<1> SUFFICES ASSUME CaptureInv, [Next]_vars, NEW s \in Stream PROVE StreamInv(s)'
  OBVIOUS
<1>0. child \in Child /\ MainInv /\ StreamInv(s) /\ reader \in [Stream -> {"off", "run", "poll", "live", "last", "done"}]
      /\ unread \in [Stream -> Nat]
  BY DEF CaptureInv, TypeOK
<1>1. ASSUME UNCHANGED <<mode, threads, got, closed, pipes>>, child.st # "none" => child'.st # "none",
             child.st # "run" => child'.st # "run" \/ child.st = "none"
      PROVE  StreamInv(s)'
  BY <1>1, StillCaptured DEF threads, pipes
<1>2. CASE Spawn
  BY <1>0, <1>1, <1>2 DEF Spawn, MainInv
<1>3. CASE StartThreads
  BY <1>3, ThreadStarted DEF StartThreads, pipes
<1>4. CASE StartFails
  <2>1. reader'[s] \in {reader[s], IF InFile(s) THEN "poll" ELSE "run"} /\ reader[s] = "off"
    BY <1>0, <1>4 DEF StartFails, MainInv, InFile
  <2> QED BY <1>4, <2>1, ThreadStarted DEF StartFails, pipes
<1>5. CASE Take
  BY <1>5, MessageTaken
<1>6. CASE IdleTimeout \/ Cleanup \/ Flush \/ Join \/ Interrupt \/ Stragglers
  BY <1>0, <1>1, <1>6 DEF IdleTimeout, Cleanup, Flush, Join, Interrupt, Stragglers
<1>7. CASE Wait \/ Term \/ Exited \/ Kill
  BY <1>0, <1>1, <1>7 DEF Wait, Term, Exited, Kill, Reaped, Child
<1>8. CASE Forks \/ ClosesOutput \/ ChildExits \/ HelperExits
  <2>1. UNCHANGED <<mode, threads, got, closed, pipes>>
    BY <1>8 DEF Forks, ClosesOutput, ChildExits, HelperExits, World
  <2>2. (child.st # "none" => child'.st # "none") /\ (child.st # "run" => child'.st # "run")
    <3>1. CASE Forks \/ HelperExits
      BY <3>1 DEF Forks, HelperExits
    <3>2. CASE ClosesOutput \/ ChildExits
      BY <1>0, <3>2 DEF ClosesOutput, ChildExits, Child
    <3> QED BY <1>8, <3>1, <3>2
  <2> QED BY <1>1, <2>1, <2>2
<1>9. CASE BrokenPipe \/ ReadsStdin
  BY <1>9, StillCaptured DEF BrokenPipe, ReadsStdin, pipes
<1>10. CASE UNCHANGED vars
  BY <1>1, <1>10 DEF vars
<1>11. ASSUME NEW t \in Stream, ReadPipe(t) PROVE StreamInv(s)'
  <2>0. UNCHANGED <<mode, got, closed, owed, child>> /\ reader[t] = "run"
    BY <1>11 DEF ReadPipe, Still
  <2>1. CASE unread[t] > 0 /\ Put(t, "chunk") /\ unread' = [unread EXCEPT ![t] = @ - 1] /\ UNCHANGED reader
    <3>1. CASE s = t
      BY <1>0, <2>0, <2>1, <3>1, ChunkMoved
    <3>2. CASE s # t
      BY <1>0, <2>0, <2>1, <3>2, OthersAdded
    <3> QED BY <3>1, <3>2
  <2>2. CASE unread[t] = 0 /\ ~Held(t) /\ Over(t) /\ UNCHANGED unread
    <3>1. CASE s = t
      <4>1. Finished(s)
        BY <1>0, <2>0, <2>2, <3>1 DEF Finished, StreamInv
      <4>2. reader'[s] = "done"
        BY <1>0, <2>2, <3>1 DEF Over
      <4> QED BY <2>0, <2>2, <3>1, <4>1, <4>2, EndAdded DEF Over
    <3>2. CASE s # t
      BY <1>0, <2>0, <2>2, <3>2, OthersAdded DEF Over
    <3> QED BY <3>1, <3>2
  <2> QED BY <1>11, <2>1, <2>2 DEF ReadPipe
<1>12. ASSUME NEW t \in Stream, PollFile(t) PROVE StreamInv(s)'
  <2>0. UNCHANGED <<mode, got, closed, owed, queue, unread>> /\ reader[t] = "poll"
    BY <1>12 DEF PollFile, Still
  <2>1. (child.st # "none" => child'.st # "none") /\ (child.st # "run" => child'.st # "run")
        /\ (child.st = "run" => child' = child)
    BY <1>0, <1>12 DEF PollFile, Child
  <2>2. CASE s # t
    <3>1. reader'[s] = reader[s]
      BY <1>0, <1>12, <2>2 DEF PollFile
    <3> QED BY <2>0, <2>1, <3>1, StillCaptured
  <2>3. CASE s = t
    <3>1. reader'[s] = IF child.st = "run" THEN "live" ELSE "last"
      BY <1>0, <1>12, <2>3 DEF PollFile
    <3>2. (Captured(s) = Captured(s)') /\ (Ends(s) <=> Ends(s)') /\ (InFile(s) <=> InFile(s)')
      BY <2>0 DEF Captured, Ends, InFile
    <3> QED BY <1>0, <2>0, <2>1, <2>3, <3>1, <3>2 DEF StreamInv
  <2> QED BY <2>2, <2>3
<1>13. ASSUME NEW t \in Stream, ReadFile(t) PROVE StreamInv(s)'
  <2>0. UNCHANGED <<mode, got, closed, owed, child>> /\ reader[t] \in {"live", "last"}
    BY <1>13 DEF ReadFile, Still
  <2>1. CASE /\ unread[t] > 0 /\ Put(t, "chunk")
             /\ unread' = [unread EXCEPT ![t] = @ - 1] /\ reader' = [reader EXCEPT ![t] = "poll"]
    <3>1. CASE s = t
      <4>1. unread'[s] = unread[s] - 1 /\ reader'[s] = "poll"
        BY <1>0, <2>1, <3>1
      <4> QED BY <2>0, <2>1, <3>1, <4>1, ChunkMoved
    <3>2. CASE s # t
      BY <1>0, <2>0, <2>1, <3>2, OthersAdded
    <3> QED BY <3>1, <3>2
  <2>2. CASE unread[t] = 0 /\ reader[t] = "last" /\ Over(t) /\ UNCHANGED unread
    <3>1. CASE s = t
      <4>1. Finished(s)
        BY <1>0, <2>0, <2>2, <3>1 DEF Finished, StreamInv
      <4>2. reader'[s] = "done"
        BY <1>0, <2>2, <3>1 DEF Over
      <4> QED BY <2>0, <2>2, <3>1, <4>1, <4>2, EndAdded DEF Over
    <3>2. CASE s # t
      BY <1>0, <2>0, <2>2, <3>2, OthersAdded DEF Over
    <3> QED BY <3>1, <3>2
  <2>3. CASE unread[t] = 0 /\ reader[t] = "live" /\ reader' = [reader EXCEPT ![t] = "poll"] /\ UNCHANGED <<queue, unread>>
    <3>1. CASE s # t
      <4>1. reader'[s] = reader[s]
        BY <1>0, <2>3, <3>1
      <4> QED BY <2>0, <2>3, <4>1, StillCaptured
    <3>2. CASE s = t
      <4>1. reader'[s] = "poll"
        BY <1>0, <2>3, <3>2
      <4>2. (Captured(s) = Captured(s)') /\ (Ends(s) <=> Ends(s)') /\ (InFile(s) <=> InFile(s)')
        BY <2>0, <2>3 DEF Captured, Ends, InFile
      <4> QED BY <1>0, <2>0, <2>3, <3>2, <4>1, <4>2 DEF StreamInv
    <3> QED BY <3>1, <3>2
  <2> QED BY <1>13, <2>1, <2>2, <2>3 DEF ReadFile
<1>14. ASSUME NEW t \in Stream, Writes(t) PROVE StreamInv(s)'
  BY <1>14, ChunkWritten
<1> QED BY <1>2, <1>3, <1>4, <1>5, <1>6, <1>7, <1>8, <1>9, <1>10, <1>11, <1>12, <1>13, <1>14 DEF Next, Advance, Reader

THEOREM CaptureHolds == Spec => []CaptureInv
<1>1. CaptureInv /\ [Next]_vars => CaptureInv'
  BY NextTyped, MainNext, StreamNext DEF CaptureInv
<1> QED BY <1>1, CaptureInit, PTL DEF Spec

\* A captured stream that is not flagged as truncated is whole, whatever the idle
\* timeout, the exceptions, the helper and the order of the threads: any number of
\* chunks and exceptions.
THEOREM CapturedWhole == Spec => []Whole
<1>1. CaptureInv => Whole
  <2> SUFFICES ASSUME CaptureInv, Returned, NEW s \in Stream, ~Truncated(s) PROVE got[s] >= owed[s]
    BY DEF Whole
  <2>1. s \in closed
    BY DEF CaptureInv, MainInv, Returned, Truncated
  <2>2. StreamInv(s) /\ got[s] \in Nat /\ owed[s] \in Nat
    BY DEF CaptureInv, TypeOK
  <2>3. ChunksIn(queue, s) = {}
    BY <2>1, <2>2 DEF StreamInv, ChunksIn
  <2>4. Cardinality(ChunksIn(queue, s)) = 0
    BY <2>3, FS_EmptySet
  <2>5. owed[s] <= Captured(s)
    BY <2>1, <2>2 DEF StreamInv, Ends
  <2> QED BY <2>2, <2>4, <2>5 DEF Captured
<1> QED BY <1>1, CaptureHolds, PTL
=============================================================================
