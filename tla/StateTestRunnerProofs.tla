----------------------- MODULE StateTestRunnerProofs -----------------------
(***************************************************************************)
(* The threads of the state test runner, for any number of threads, files  *)
(* and paths: the trace is printed once, the run fails fast, and the       *)
(* verdict is that of the files.                                           *)
(***************************************************************************)
EXTENDS StateTestRunner, SequenceTheorems, FiniteSetTheorems, TLAPS

-----------------------------------------------------------------------------
(* The invariant *)

FileSet == DOMAIN content
Pcs == {"load", "claim", "open", "test", "trace", "count", "ended"}
Ends == {"none", "Ok", "Err", "Panic"}
WorkerType == [pc : Pcs, file : FileSet \cup {""}, pos : Nat, end : Ends]

Typed ==
    /\ content \in Contents /\ paths \in CommandLines /\ config.parallelism \in Parallelism
    /\ failed \in BOOLEAN /\ idx \in Nat /\ n_errors \in Nat /\ joined \in Nat /\ path \in Nat
    /\ worker \in Seq(WorkerType) /\ late \in Seq(FileSet) /\ traces \in Seq(FileSet)
    /\ ran \in Seq([file : FileSet, end : Ends]) /\ thread_errors \in Seq(Ends)

\* What a thread knows of its file: how far it is in it, and how the file ended.  The contents
\* and the files of the path are parameters, for they do not change while the threads run.
SoundIn(c, f) == \/ c[f].kind = "skipped"
                 \/ c[f].kind = "suite" /\ \A i \in DOMAIN c[f].tests : Holds(c[f].tests[i])
Knows(c, files, r) ==
    /\ r.pc \in {"open", "test", "trace", "count"} => r.file \in files
    /\ r.pc = "open" => r.pos = 0
    /\ r.pc = "test" => c[r.file].kind = "suite" /\ \A i \in 1 .. r.pos : Holds(c[r.file].tests[i])
    /\ r.pc = "trace" => ~SoundIn(c, r.file)
    /\ r.pc = "count" => \/ r.end = "Ok" /\ SoundIn(c, r.file)
                         \/ r.end = "Err" /\ ~SoundIn(c, r.file)
    /\ r.pc = "ended" => \/ r.end = "Ok"
                         \/ r.end \in {"Err", "Panic"} /\ ~SoundIn(c, r.file) /\ r.file \in files

\* Where the run is, and what its threads know
Placed ==
    /\ verdict = "none" => path <= Len(paths)
    /\ worker # <<>> => queue \in Seq(FileSet) /\ verdict # "pass" /\ path \in 1 .. Len(paths) /\ idx <= Len(queue)
    /\ \A w \in DOMAIN worker : Knows(content, Range(queue), worker[w])

\* A trace is on its way or printed, and never both; the error it is of is counted,
\* or will be before the threads are joined.
Tracing(r) == r.pc = "trace"
Counting(r) == r.pc = "count" /\ r.end = "Err"
Once ==
    /\ ~failed => traces = <<>> /\ \A w \in DOMAIN worker : ~Tracing(worker[w])
    /\ Len(traces) <= 1
    /\ \A w \in DOMAIN worker : Tracing(worker[w]) => traces = <<>> /\ ~config.print_outcome
    /\ \A v, w \in DOMAIN worker : Tracing(worker[v]) /\ Tracing(worker[w]) => v = w
    /\ config.print_outcome => traces = <<>>
    /\ \A i \in DOMAIN traces : ~SoundIn(content, traces[i])
    /\ traces # <<>> => \/ worker # <<>> /\ n_errors > 0
                        \/ \E w \in DOMAIN worker : Counting(worker[w])

\* The threads that are joined have ended, and so have all of them behind a verdict.
Over ==
    /\ \A w \in DOMAIN worker : w <= joined => worker[w].pc = "ended"
    /\ verdict # "none" => \A w \in DOMAIN worker : worker[w].pc = "ended"

\* Once an error is counted, the thread that counted it has ended, and each of the others
\* claims one more file at most: those that have and those that may are fewer than the threads.
Claiming == {w \in DOMAIN worker : worker[w].pc = "claim"}
Hurry == ~config.keep_going =>
    /\ n_errors = 0 => late = <<>>
    /\ n_errors > 0 => worker # <<>> /\ Len(late) + Cardinality(Claiming) < Len(worker)

RunnerInv == Typed /\ Placed /\ Once /\ Over /\ Hurry

\* The files that are claimed have run or are held by one thread each.
Holding(r) == r.pc \in {"open", "test", "trace"}
Held == {w \in DOMAIN worker : Holding(worker[w])}
Claimed == (UNION {FilesOf(p) : p \in 1 .. path - 1}) \cup {queue[i] : i \in 1 .. idx}
RanFiles == {ran[i].file : i \in DOMAIN ran}
Accounted ==
    /\ RanFiles \cup {worker[w].file : w \in Held} = Claimed
    /\ \A w \in Held : worker[w].file \notin RanFiles
    /\ \A v, w \in Held : worker[v].file = worker[w].file => v = w
    /\ IsFiniteSet(RanFiles) /\ Len(ran) = Cardinality(RanFiles)
    /\ \A p \in 1 .. path - 1 : paths[p] # Missing
    /\ verdict = "none" /\ path > 0 => queue # Missing /\ queue \in Seq(FileSet)
    /\ verdict = "none" /\ path > 0 /\ worker = <<>> => idx = Len(queue)

\* What ran is as sound as its end says, and errors and panics are those of this path.
Judged ==
    /\ \A i \in DOMAIN ran : \/ ran[i].end = "Ok" /\ SoundIn(content, ran[i].file)
                             \/ ran[i].end \in {"Err", "Panic"} /\ ~SoundIn(content, ran[i].file)
    /\ \A i \in DOMAIN ran : ran[i].end = "Panic" =>
          \E w \in DOMAIN worker : worker[w].pc = "ended" /\ worker[w].end = "Panic"
    /\ \A i \in DOMAIN ran : ran[i].end = "Err" => worker # <<>> /\ ran[i].file \in Range(queue)

\* The counter has the files that failed, without those whose thread is about to count them.
Failing == {f \in Range(queue) : \E i \in DOMAIN ran : ran[i].file = f /\ ran[i].end = "Err"}
Uncounted == {w \in DOMAIN worker : Counting(worker[w])}
Counted == worker # <<>> => /\ IsFiniteSet(Failing)
                            /\ n_errors + Cardinality(Uncounted) = Cardinality(Failing)

\* Why a thread has ended, and what the main thread has heard of it
Quit(e) == \E w \in DOMAIN worker : worker[w].pc = "ended" /\ worker[w].end \in e
Explained ==
    /\ \A w \in DOMAIN worker : worker[w].pc = "ended" /\ worker[w].end = "Ok" =>
          idx = Len(queue) \/ (~config.keep_going /\ n_errors > 0)
    /\ worker # <<>> /\ ~config.keep_going /\ n_errors > 0 => Quit({"Err"})
    /\ thread_errors = <<>> => \A w \in DOMAIN worker : w <= joined => worker[w].end = "Ok"
    /\ thread_errors # <<>> => Quit({"Err", "Panic"})
    /\ worker = <<>> => thread_errors = <<>>
    /\ verdict = "err" => queue \in {Missing, <<>>} \/ Quit({"Err", "Panic"})
    /\ verdict = "exit" => thread_errors = <<>> /\ worker # <<>> /\ joined = Len(worker)
    /\ verdict = "exit" => n_errors > 0
    /\ verdict = "pass" => path = Len(paths) + 1 /\ worker = <<>> /\ idx = 0
    /\ path = 0 => idx = 0

Earned == Accounted /\ Judged /\ Counted /\ Explained

\* No file is named twice on a command line.
NoFileTwice ==
    \A ps \in CommandLines : \A p, q \in DOMAIN ps : ps[p] # Missing /\ ps[q] # Missing =>
        \A i \in DOMAIN ps[p], j \in DOMAIN ps[q] : ps[p][i] = ps[q][j] => p = q /\ i = j

-----------------------------------------------------------------------------
(* The tests *)

LEMMA SoundIsSoundIn == \A f : Sound(f) <=> SoundIn(content, f)
BY DEF Sound, SoundIn

\* The end of a test is right: the loop goes on exactly behind a test that holds.
LEMMA EndIsRight ==
    ASSUME NEW t \in Test
    PROVE  /\ test_end(t) = "Next" => Holds(t)
           /\ test_end(t) # "Next" => ~Holds(t) /\ test_end(t) \in {"Err", "Panic", "Unrunnable"}
BY DEF Test, test_end, tx_env, tx_type, execute_single_test, check_evm_execution,
       validate_exception, validate_output, Holds

LEMMA ContentTyped ==
    ASSUME Typed
    PROVE  /\ content \in [FileSet -> TestSuite]
           /\ paths \in Seq({Missing} \cup Seq(FileSet))
           /\ Parallelism \subseteq Nat
<1>1. content \in Contents /\ paths \in CommandLines
    BY DEF Typed
<1>2. /\ content \in [DOMAIN content -> TestSuite]
      /\ CommandLines \subseteq Seq({Missing} \cup Seq(DOMAIN content))
      /\ Parallelism \subseteq Nat
    BY <1>1, RunnerAssumption, Zenon
<1> QED BY <1>1, <1>2, Zenon DEF FileSet

\* What is known of a file before its first test
LEMMA OpenIsRight ==
    ASSUME Typed, NEW f \in FileSet
    PROVE  /\ open_suite(f) = "Suite" => content[f].kind = "suite"
           /\ open_suite(f) = "Ok" => SoundIn(content, f)
           /\ open_suite(f) \in {"Err", "Panic"} => ~SoundIn(content, f)
           /\ open_suite(f) \in {"Suite", "Ok", "Err", "Panic"}
<1>1. content[f].kind \in {"skipped", "unreadable", "not JSON", "suite"}
    BY ContentTyped DEF TestSuite
<1> DEFINE k == content[f].kind
<1>2. open_suite(f) = CASE k = "skipped" -> "Ok"
                        [] k = "unreadable" -> "Panic"
                        [] k = "not JSON" -> "Err"
                        [] OTHER -> "Suite"
    BY DEF open_suite
<1>3. SoundIn(content, f) => k = "skipped" \/ k = "suite"
    BY DEF SoundIn
<1>4. k = "skipped" => SoundIn(content, f)
    BY DEF SoundIn
<1> HIDE DEF k
<1>5. k \in {"skipped", "unreadable", "not JSON", "suite"}
    BY <1>1 DEF k
<1>6. CASE k = "skipped"
    BY <1>2, <1>4, <1>6
<1>7. CASE k = "unreadable"
    BY <1>2, <1>3, <1>7
<1>8. CASE k = "not JSON"
    BY <1>2, <1>3, <1>8
<1>9. CASE k = "suite"
    BY <1>2, <1>9 DEF k
<1> QED BY <1>5, <1>6, <1>7, <1>8, <1>9

-----------------------------------------------------------------------------
(* The steps of a thread *)

\* Thread w goes on as r.  A thread that has ended takes no step.
Moves(w, r) ==
    /\ w \in DOMAIN worker /\ worker[w].pc # "ended" /\ r \in WorkerType
    /\ worker' = [worker EXCEPT ![w] = r]
    /\ UNCHANGED <<paths, content, config, path, joined, thread_errors, verdict>>

\* Thread w is done with its suite.
Finishes(w, r, e) ==
    /\ ran' = Append(ran, [file |-> worker[w].file, end |-> e])
    /\ r.file = worker[w].file /\ r.end = e
    /\ e = "Panic" => r.pc = "ended"
    /\ e # "Panic" => r.pc = "count"

\* The end e is what the file f deserves.
Deserved(f, e) == \/ e = "Ok" /\ SoundIn(content, f)
                  \/ e \in {"Err", "Panic"} /\ ~SoundIn(content, f)

LEMMA ThreadTyped ==
    ASSUME Typed, NEW w \in DOMAIN worker
    PROVE  worker[w] \in WorkerType
BY DEF Typed

LEMMA LoadErrorsMoves ==
    ASSUME Typed, NEW w \in DOMAIN worker, LoadErrors(w)
    PROVE  \E r : /\ Moves(w, r) /\ worker[w].pc = "load"
                  /\ UNCHANGED <<failed, idx, n_errors, ran, late, traces>>
                  /\ \/ r.pc = "ended" /\ r.end = "Ok" /\ ~config.keep_going /\ n_errors > 0
                     \/ r.pc = "claim" /\ (config.keep_going \/ n_errors = 0)
<1>1. worker[w] \in WorkerType /\ n_errors \in Nat
    BY ThreadTyped DEF Typed
<1>2. /\ worker[w].pc = "load" /\ UNCHANGED <<paths, content, config, path, joined, thread_errors, verdict>>
      /\ UNCHANGED <<failed, idx, n_errors, ran, late, traces>>
    BY DEF LoadErrors, input, main, shared, history
<1>3. CASE ~config.keep_going /\ n_errors > 0
    <2> DEFINE r == [worker[w] EXCEPT !.pc = "ended", !.end = "Ok"]
    <2>1. worker' = [worker EXCEPT ![w] = r]
        BY <1>3, Zenon DEF LoadErrors, return, set
    <2>2. r \in WorkerType /\ r.pc = "ended" /\ r.end = "Ok"
        BY <1>1 DEF WorkerType, Pcs, Ends
    <2> HIDE DEF r
    <2>3. Moves(w, r)
        BY <1>2, <2>1, <2>2 DEF Moves
    <2> QED BY <1>2, <1>3, <2>2, <2>3, Zenon
<1>4. CASE ~(~config.keep_going /\ n_errors > 0)
    <2> DEFINE r == [worker[w] EXCEPT !.pc = "claim"]
    <2>1. worker' = [worker EXCEPT ![w] = r]
        BY <1>4, Zenon DEF LoadErrors, goto, set
    <2>2. r \in WorkerType /\ r.pc = "claim"
        BY <1>1 DEF WorkerType, Pcs, Ends
    <2> HIDE DEF r
    <2>3. Moves(w, r)
        BY <1>2, <2>1, <2>2 DEF Moves
    <2>4. config.keep_going \/ n_errors = 0
        BY <1>1, <1>4
    <2> QED BY <1>2, <2>2, <2>3, <2>4, Zenon
<1> QED BY <1>3, <1>4

LEMMA NextTestMoves ==
    ASSUME Typed, Placed, NEW w \in DOMAIN worker, NextTest(w)
    PROVE  \E r : /\ Moves(w, r) /\ worker[w].pc = "claim"
                  /\ UNCHANGED <<failed, n_errors, ran, traces>>
                  /\ \/ /\ idx < Len(queue) /\ idx' = idx + 1 /\ queue[idx + 1] \in FileSet
                        /\ r.pc = "open" /\ r.file = queue[idx + 1] /\ r.pos = 0
                        /\ \/ n_errors > 0 /\ late' = Append(late, queue[idx + 1])
                           \/ n_errors = 0 /\ late' = late
                     \/ /\ ~(idx < Len(queue)) /\ idx' = idx /\ late' = late
                        /\ r.pc = "ended" /\ r.end = "Ok"
<1>1. worker[w] \in WorkerType /\ n_errors \in Nat /\ idx \in Nat
    BY ThreadTyped DEF Typed
<1>2. queue \in Seq(FileSet)
    <2>1. worker # <<>>
        BY DEF Typed
    <2> QED BY <2>1, Zenon DEF Placed
<1>3. /\ worker[w].pc = "claim" /\ UNCHANGED <<paths, content, config, path, joined, thread_errors, verdict>>
      /\ UNCHANGED <<failed, n_errors, ran, traces>>
    BY DEF NextTest, input, main
<1>4. CASE idx < Len(queue)
    <2> DEFINE f == queue[idx + 1]
               r == [Fresh EXCEPT !.pc = "open", !.file = f]
    <2>1. f \in FileSet
        BY <1>1, <1>2, <1>4
    <2>2. /\ idx' = idx + 1 /\ worker' = [worker EXCEPT ![w] = r]
          /\ late' = IF n_errors > 0 THEN Append(late, f) ELSE late
        BY <1>4, Zenon DEF NextTest, set
    <2> HIDE DEF f
    <2>3. r \in WorkerType /\ r.pc = "open" /\ r.file = f /\ r.pos = 0
        BY <2>1 DEF WorkerType, Pcs, Ends, Fresh
    <2> HIDE DEF r
    <2>4. Moves(w, r)
        BY <1>3, <2>2, <2>3 DEF Moves
    <2>5. \/ n_errors > 0 /\ late' = Append(late, f)
          \/ n_errors = 0 /\ late' = late
        BY <1>1, <2>2
    <2> QED BY <1>3, <1>4, <2>1, <2>2, <2>3, <2>4, <2>5, Zenon DEF f
<1>5. CASE ~(idx < Len(queue))
    <2> DEFINE r == [worker[w] EXCEPT !.pc = "ended", !.end = "Ok"]
    <2>1. worker' = [worker EXCEPT ![w] = r] /\ idx' = idx /\ late' = late
        BY <1>5, Zenon DEF NextTest, return, set
    <2>2. r \in WorkerType /\ r.pc = "ended" /\ r.end = "Ok"
        BY <1>1 DEF WorkerType, Pcs, Ends
    <2> HIDE DEF r
    <2>3. Moves(w, r)
        BY <1>3, <2>1, <2>2 DEF Moves
    <2> QED BY <1>3, <1>5, <2>1, <2>2, <2>3, Zenon
<1> QED BY <1>4, <1>5

\* The end of a suite, counted or a panic
LEMMA EndedMoves ==
    ASSUME NEW w, worker[w] \in WorkerType, NEW e \in Ends, ended(w, e)
    PROVE  \E r \in WorkerType : worker' = [worker EXCEPT ![w] = r] /\ Finishes(w, r, e)
<1>1. ran' = Append(ran, [file |-> worker[w].file, end |-> e])
    BY Zenon DEF ended
<1>2. CASE e = "Panic"
    <2> DEFINE r == [worker[w] EXCEPT !.pc = "ended", !.end = "Panic"]
    <2>1. worker' = [worker EXCEPT ![w] = r]
        BY <1>2, Zenon DEF ended, return, set
    <2>2. r \in WorkerType /\ r.pc = "ended" /\ r.file = worker[w].file /\ r.end = "Panic"
        BY DEF WorkerType, Pcs, Ends
    <2> HIDE DEF r
    <2>3. Finishes(w, r, e)
        BY <1>1, <1>2, <2>2, Zenon DEF Finishes
    <2> QED BY <2>1, <2>2, <2>3, Zenon
<1>3. CASE e # "Panic"
    <2> DEFINE r == [worker[w] EXCEPT !.pc = "count", !.end = e]
    <2>1. worker' = [worker EXCEPT ![w] = r]
        BY <1>3, Zenon DEF ended, set
    <2>2. r \in WorkerType /\ r.pc = "count" /\ r.file = worker[w].file /\ r.end = e
        BY DEF WorkerType, Pcs, Ends
    <2> HIDE DEF r
    <2>3. Finishes(w, r, e)
        BY <1>1, <1>3, <2>2, Zenon DEF Finishes
    <2> QED BY <2>1, <2>2, <2>3, Zenon
<1> QED BY <1>2, <1>3

LEMMA OpenSuiteMoves ==
    ASSUME Typed, Placed, NEW w \in DOMAIN worker, OpenSuite(w)
    PROVE  \E r : /\ Moves(w, r) /\ worker[w].pc = "open" /\ r.file = worker[w].file
                  /\ UNCHANGED <<failed, idx, n_errors, late, traces>>
                  /\ \/ /\ r.pc = "test" /\ r.pos = 0 /\ content[r.file].kind = "suite" /\ ran' = ran
                     \/ \E e \in Ends : Finishes(w, r, e) /\ Deserved(r.file, e)
<1> DEFINE f == worker[w].file
<1>1. worker[w] \in WorkerType /\ worker[w].pc = "open"
    BY ThreadTyped DEF OpenSuite
<1>2. f \in FileSet /\ worker[w].pos = 0
    <2>1. Knows(content, Range(queue), worker[w]) /\ queue \in Seq(FileSet)
        <3>1. worker # <<>>
            BY DEF Typed
        <3> QED BY <3>1, Zenon DEF Placed
    <2>2. f \in Range(queue) /\ worker[w].pos = 0
        BY <1>1, <2>1 DEF Knows
    <2>3. Range(queue) \subseteq FileSet
        BY <2>1 DEF Range
    <2> QED BY <2>2, <2>3
<1>3. /\ UNCHANGED <<paths, content, config, path, joined, thread_errors, verdict>>
      /\ UNCHANGED <<failed, idx, n_errors, late, traces>>
    BY DEF OpenSuite, input, main, shared
<1>4. CASE open_suite(f) = "Suite"
    <2> DEFINE r == [worker[w] EXCEPT !.pc = "test"]
    <2>1. worker' = [worker EXCEPT ![w] = r] /\ ran' = ran
        BY <1>4, Zenon DEF OpenSuite, goto, set
    <2>2. r \in WorkerType /\ r.pc = "test" /\ r.file = f /\ r.pos = 0
        BY <1>1, <1>2 DEF WorkerType, Pcs, Ends
    <2>3. content[f].kind = "suite"
        BY <1>2, <1>4, OpenIsRight
    <2> HIDE DEF r
    <2>4. Moves(w, r)
        BY <1>1, <1>3, <2>1, <2>2 DEF Moves
    <2> QED BY <1>1, <1>3, <2>1, <2>2, <2>3, <2>4, Zenon
<1>5. CASE open_suite(f) # "Suite"
    <2> DEFINE e == open_suite(f)
    <2>1. ended(w, e)
        BY <1>5, Zenon DEF OpenSuite
    <2>2. e \in {"Ok", "Err", "Panic"} /\ Deserved(f, e)
        BY <1>2, <1>5, OpenIsRight DEF Deserved
    <2>3. e \in Ends
        BY <2>2 DEF Ends
    <2> HIDE DEF e
    <2>4. PICK r \in WorkerType : worker' = [worker EXCEPT ![w] = r] /\ Finishes(w, r, e)
        BY <1>1, <2>1, <2>3, EndedMoves, Zenon
    <2>5. r.file = f
        BY <2>4, Zenon DEF Finishes
    <2>6. Moves(w, r)
        BY <1>1, <1>3, <2>4 DEF Moves
    <2> QED BY <1>1, <1>3, <2>2, <2>3, <2>4, <2>5, <2>6, Zenon
<1> QED BY <1>4, <1>5

LEMMA ExecuteTestMoves ==
    ASSUME Typed, Placed, NEW w \in DOMAIN worker, ExecuteTest(w)
    PROVE  \E r : /\ Moves(w, r) /\ worker[w].pc = "test" /\ r.file = worker[w].file
                  /\ UNCHANGED <<idx, n_errors, late, traces>>
                  /\ \/ /\ r.pc = "test" /\ r.pos = worker[w].pos + 1 /\ UNCHANGED <<ran, failed>>
                        /\ Holds(content[r.file].tests[r.pos])
                     \/ /\ r.pc = "trace" /\ ran' = ran /\ ~failed /\ failed' = TRUE
                        /\ ~config.print_outcome /\ ~SoundIn(content, r.file)
                     \/ /\ failed' = failed \/ failed' = TRUE
                        /\ \E e \in Ends : Finishes(w, r, e) /\ Deserved(r.file, e)
<1> DEFINE f == worker[w].file
           tests == content[f].tests
           i == worker[w].pos + 1
           end == IF i > Len(tests) THEN "Ok" ELSE test_end(tests[i])
<1>1. worker[w] \in WorkerType /\ worker[w].pc = "test"
    BY ThreadTyped DEF ExecuteTest
<1>2. f \in FileSet /\ content[f].kind = "suite" /\ \A j \in 1 .. worker[w].pos : Holds(tests[j])
    <2>1. Knows(content, Range(queue), worker[w]) /\ queue \in Seq(FileSet)
        <3>1. worker # <<>>
            BY DEF Typed
        <3> QED BY <3>1, Zenon DEF Placed
    <2>2. f \in Range(queue) /\ content[f].kind = "suite" /\ \A j \in 1 .. worker[w].pos : Holds(tests[j])
        BY <1>1, <2>1 DEF Knows
    <2>3. Range(queue) \subseteq FileSet
        BY <2>1 DEF Range
    <2> QED BY <2>2, <2>3
<1>3. /\ UNCHANGED <<paths, content, config, path, joined, thread_errors, verdict>>
      /\ UNCHANGED <<idx, n_errors, late, traces>>
    BY DEF ExecuteTest, input, main
<1>4. tests \in Seq(Test)
    <2>1. content[f] \in TestSuite
        BY <1>2, ContentTyped
    <2> QED BY <2>1 DEF TestSuite
<1>5. worker[w].pos \in Nat /\ i \in Nat /\ i > 0
    <2>1. worker[w].pos \in Nat
        BY ONLY <1>1 DEF WorkerType
    <2> QED BY ONLY <2>1
<1>6. IF end = "Next" THEN set(w, [worker[w] EXCEPT !.pos = i]) /\ UNCHANGED <<ran, failed>>
      ELSE IF end = "Err" /\ ~config.print_outcome
      THEN /\ failed' = TRUE
           /\ IF failed THEN ended(w, "Err") ELSE goto(w, "trace") /\ UNCHANGED ran
      ELSE ended(w, IF end = "Unrunnable" THEN "Err" ELSE end) /\ UNCHANGED failed
    BY Zenon DEF ExecuteTest
<1>7. /\ i > Len(tests) => end = "Ok"
      /\ ~(i > Len(tests)) => end = test_end(tests[i])
    OBVIOUS
<1>8. SoundIn(content, f) <=> \A j \in DOMAIN tests : Holds(tests[j])
    BY <1>2 DEF SoundIn
<1> HIDE DEF end, tests
<1>9. \/ end = "Next" /\ Holds(tests[i])
      \/ end = "Ok" /\ SoundIn(content, f)
      \/ end \in {"Err", "Panic", "Unrunnable"} /\ ~SoundIn(content, f)
    <2>1. CASE i > Len(tests)
        <3>1. DOMAIN tests = 1 .. Len(tests) /\ Len(tests) \in Nat
            BY <1>4
        <3>2. \A j \in DOMAIN tests : j \in 1 .. worker[w].pos
            BY <1>5, <2>1, <3>1
        <3>3. end = "Ok"
            BY <1>7, <2>1
        <3> QED BY <1>2, <1>8, <3>2, <3>3, Zenon
    <2>2. CASE ~(i > Len(tests))
        <3>1. i \in DOMAIN tests /\ tests[i] \in Test
            BY <1>4, <1>5, <2>2
        <3>2. end = test_end(tests[i])
            BY <1>7, <2>2, Zenon
        <3> HIDE DEF i
        <3> DEFINE t == tests[i]
        <3>3. t \in Test /\ end = test_end(t)
            BY <3>1, <3>2
        <3>4. ~Holds(t) => ~SoundIn(content, f)
            BY <1>8, <3>1, Zenon
        <3> HIDE DEF t
        <3>5. \/ end = "Next" /\ Holds(t)
              \/ end \in {"Err", "Panic", "Unrunnable"} /\ ~Holds(t)
            BY <3>3, EndIsRight, Zenon
        <3> QED BY <3>4, <3>5, Zenon DEF t
    <2> QED BY <2>1, <2>2
<1>10. failed \in BOOLEAN
    BY Zenon DEF Typed
<1>11. CASE end = "Next"
    <2> DEFINE r == [worker[w] EXCEPT !.pos = i]
    <2>1. worker' = [worker EXCEPT ![w] = r] /\ failed' = failed /\ ran' = ran
        BY <1>6, <1>11, Zenon DEF set
    <2>2. r \in WorkerType /\ r.pc = "test" /\ r.file = f /\ r.pos = i
        BY <1>1, <1>5 DEF WorkerType, Pcs, Ends
    <2>3. Holds(tests[i])
        BY <1>9, <1>11
    <2> HIDE DEF r
    <2>4. Moves(w, r)
        BY <1>1, <1>3, <2>1, <2>2 DEF Moves
    <2>5. Holds(content[r.file].tests[r.pos])
        BY <2>2, <2>3, Zenon DEF tests
    <2> QED BY <1>1, <1>3, <2>1, <2>2, <2>4, <2>5, Zenon
<1>12. CASE end = "Err" /\ ~config.print_outcome /\ ~failed
    <2> DEFINE r == [worker[w] EXCEPT !.pc = "trace"]
    <2>a. end # "Next"
        BY <1>12
    <2>1. worker' = [worker EXCEPT ![w] = r] /\ failed' = TRUE /\ ran' = ran
        BY <1>6, <1>12, <2>a, Zenon DEF goto, set
    <2>2. r \in WorkerType /\ r.pc = "trace" /\ r.file = f
        BY <1>1 DEF WorkerType, Pcs, Ends
    <2>3. ~SoundIn(content, f)
        BY <1>9, <1>12
    <2> HIDE DEF r
    <2>4. Moves(w, r)
        BY <1>1, <1>3, <2>1, <2>2 DEF Moves
    <2> QED BY <1>1, <1>3, <1>12, <2>1, <2>2, <2>3, <2>4, Zenon
<1>13. CASE end # "Next" /\ ~(end = "Err" /\ ~config.print_outcome /\ ~failed)
    <2>1. \E e \in Ends : ended(w, e) /\ Deserved(f, e) /\ (failed' = failed \/ failed' = TRUE)
        <3>1. CASE end = "Err" /\ ~config.print_outcome
            <4>1. ended(w, "Err") /\ failed' = TRUE
                BY <1>6, <1>13, <3>1, Zenon
            <4>2. "Err" \in Ends /\ Deserved(f, "Err")
                BY <1>9, <3>1 DEF Ends, Deserved
            <4> QED BY <4>1, <4>2, Zenon
        <3>2. CASE ~(end = "Err" /\ ~config.print_outcome)
            <4> DEFINE e == IF end = "Unrunnable" THEN "Err" ELSE end
            <4>1. ended(w, e) /\ failed' = failed
                BY <1>6, <1>13, <3>2, Zenon
            <4>2. e \in Ends /\ Deserved(f, e)
                BY <1>9, <1>13 DEF Ends, Deserved
            <4> HIDE DEF e
            <4> QED BY <4>1, <4>2, Zenon
        <3> QED BY <3>1, <3>2
    <2>2. PICK e \in Ends : ended(w, e) /\ Deserved(f, e) /\ (failed' = failed \/ failed' = TRUE)
        BY <2>1
    <2>4. PICK r \in WorkerType : worker' = [worker EXCEPT ![w] = r] /\ Finishes(w, r, e)
        BY <1>1, <2>2, EndedMoves, Zenon
    <2>5. r.file = f
        BY <2>4, Zenon DEF Finishes
    <2>6. Moves(w, r)
        BY <1>1, <1>3, <2>4 DEF Moves
    <2> QED BY <1>1, <1>3, <2>2, <2>4, <2>5, <2>6, Zenon
<1> QED BY <1>11, <1>12, <1>13

LEMMA DebugFailedTestMoves ==
    ASSUME Typed, Placed, NEW w \in DOMAIN worker, DebugFailedTest(w)
    PROVE  \E r : /\ Moves(w, r) /\ worker[w].pc = "trace" /\ r.file = worker[w].file
                  /\ UNCHANGED <<failed, idx, n_errors, late>>
                  /\ traces' = Append(traces, r.file) /\ Finishes(w, r, "Err")
<1>1. worker[w] \in WorkerType /\ worker[w].pc = "trace" /\ "Err" \in Ends
    BY ThreadTyped DEF DebugFailedTest, Ends
<1>2. /\ UNCHANGED <<paths, content, config, path, joined, thread_errors, verdict>>
      /\ UNCHANGED <<failed, idx, n_errors, late>>
      /\ traces' = Append(traces, worker[w].file) /\ ended(w, "Err")
    BY DEF DebugFailedTest, input, main, shared
<1>3. PICK r \in WorkerType : worker' = [worker EXCEPT ![w] = r] /\ Finishes(w, r, "Err")
    BY <1>1, <1>2, EndedMoves, Zenon
<1>4. Moves(w, r)
    BY <1>1, <1>2, <1>3 DEF Moves
<1>5. r.file = worker[w].file
    BY <1>3, Zenon DEF Finishes
<1> QED BY <1>1, <1>2, <1>3, <1>4, <1>5, Zenon

LEMMA CountResultMoves ==
    ASSUME Typed, NEW w \in DOMAIN worker, CountResult(w)
    PROVE  \E r : /\ Moves(w, r) /\ worker[w].pc = "count" /\ r.file = worker[w].file
                  /\ UNCHANGED <<failed, idx, ran, late, traces>>
                  /\ \/ /\ worker[w].end = "Err" /\ n_errors' = n_errors + 1 /\ ~config.keep_going
                        /\ r.pc = "ended" /\ r.end = "Err"
                     \/ /\ worker[w].end = "Err" /\ n_errors' = n_errors + 1 /\ config.keep_going
                        /\ r.pc = "load"
                     \/ worker[w].end # "Err" /\ n_errors' = n_errors /\ r.pc = "load"
<1>1. worker[w] \in WorkerType /\ worker[w].pc = "count"
    BY ThreadTyped DEF CountResult
<1>2. /\ UNCHANGED <<paths, content, config, path, joined, thread_errors, verdict>>
      /\ UNCHANGED <<failed, idx, ran, late, traces>>
      /\ n_errors' = IF worker[w].end = "Err" THEN n_errors + 1 ELSE n_errors
    BY DEF CountResult, input, main, history
<1>3. CASE worker[w].end = "Err" /\ ~config.keep_going
    <2> DEFINE r == [worker[w] EXCEPT !.pc = "ended", !.end = "Err"]
    <2>1. worker' = [worker EXCEPT ![w] = r]
        BY <1>3, Zenon DEF CountResult, return, set
    <2>2. r \in WorkerType /\ r.pc = "ended" /\ r.end = "Err" /\ r.file = worker[w].file
        BY <1>1 DEF WorkerType, Pcs, Ends
    <2> HIDE DEF r
    <2>3. Moves(w, r)
        BY <1>1, <1>2, <2>1, <2>2 DEF Moves
    <2> QED BY <1>1, <1>2, <1>3, <2>2, <2>3, Zenon
<1>4. CASE ~(worker[w].end = "Err" /\ ~config.keep_going)
    <2> DEFINE r == [worker[w] EXCEPT !.pc = "load"]
    <2>1. worker' = [worker EXCEPT ![w] = r]
        BY <1>4, Zenon DEF CountResult, goto, set
    <2>2. r \in WorkerType /\ r.pc = "load" /\ r.file = worker[w].file
        BY <1>1 DEF WorkerType, Pcs, Ends
    <2> HIDE DEF r
    <2>3. Moves(w, r)
        BY <1>1, <1>2, <2>1, <2>2 DEF Moves
    <2> QED BY <1>1, <1>2, <1>4, <2>2, <2>3, Zenon
<1> QED BY <1>3, <1>4

-----------------------------------------------------------------------------
(* What a step of a thread does to the invariant *)

LEMMA MoveFacts ==
    ASSUME Typed, NEW w, NEW r, Moves(w, r)
    PROVE  /\ worker' \in Seq(WorkerType) /\ Len(worker') = Len(worker) /\ DOMAIN worker' = DOMAIN worker
           /\ worker'[w] = r /\ \A v \in DOMAIN worker : v # w => worker'[v] = worker[v]
           /\ worker # <<>> /\ worker' # <<>> /\ worker[w] \in WorkerType /\ w \in DOMAIN worker
           /\ DOMAIN worker = 1 .. Len(worker) /\ Len(worker) \in Nat
<1>1. worker \in Seq(WorkerType) /\ w \in DOMAIN worker /\ r \in WorkerType
      /\ worker' = [worker EXCEPT ![w] = r]
    BY DEF Typed, Moves
<1> QED BY <1>1

LEMMA TypedMoves ==
    ASSUME Typed, NEW w, NEW r, Moves(w, r), failed' \in BOOLEAN, idx' \in Nat, n_errors' \in Nat,
           late' \in Seq(FileSet), traces' \in Seq(FileSet), ran' \in Seq([file : FileSet, end : Ends])
    PROVE  Typed'
<1>1. worker' \in Seq(WorkerType)
    BY MoveFacts
<1>2. UNCHANGED <<content, paths, config, joined, path, thread_errors>> /\ FileSet' = FileSet /\ WorkerType' = WorkerType
    BY DEF Moves, FileSet, WorkerType
<1> QED BY <1>1, <1>2 DEF Typed

LEMMA PlacedMoves ==
    ASSUME Typed, Placed, NEW w, NEW r, Moves(w, r), Knows(content, Range(queue), r),
           idx' <= Len(queue)
    PROVE  Placed'
<1>1. UNCHANGED <<paths, content, path, verdict, FileSet, queue>>
    BY DEF Moves, FileSet, queue
<1>2. /\ DOMAIN worker' = DOMAIN worker /\ worker'[w] = r /\ worker # <<>>
      /\ \A v \in DOMAIN worker : v # w => worker'[v] = worker[v]
    BY MoveFacts
<1>3. \A v \in DOMAIN worker' : Knows(content', Range(queue'), worker'[v])
    BY <1>1, <1>2, Zenon DEF Placed
<1>4. queue' \in Seq(FileSet') /\ verdict' # "pass" /\ path' \in 1 .. Len(paths') /\ idx' <= Len(queue')
    BY <1>1, <1>2, Zenon DEF Placed
<1>5. verdict' = "none" => path' <= Len(paths')
    BY <1>1, Zenon DEF Placed
<1> QED BY <1>3, <1>4, <1>5, Zenon DEF Placed

LEMMA OverMoves ==
    ASSUME Typed, Over, NEW w, NEW r, Moves(w, r)
    PROVE  Over'
<1>1. /\ DOMAIN worker' = DOMAIN worker /\ w \in DOMAIN worker
      /\ \A v \in DOMAIN worker : v # w => worker'[v] = worker[v]
    BY MoveFacts
<1>2. worker[w].pc # "ended" /\ joined' = joined /\ verdict' = verdict
    BY DEF Moves
<1> QED BY <1>1, <1>2 DEF Over

\* The threads that are about to claim a file
LEMMA ClaimingFinite ==
    ASSUME Typed
    PROVE  /\ IsFiniteSet(Claiming) /\ Cardinality(Claiming) \in Nat
           /\ IsFiniteSet(DOMAIN worker) /\ Cardinality(DOMAIN worker) = Len(worker)
<1>1. DOMAIN worker = 1 .. Len(worker) /\ Len(worker) \in Nat
    BY DEF Typed
<1>2. IsFiniteSet(DOMAIN worker) /\ Cardinality(DOMAIN worker) = Len(worker)
    <2> DEFINE n == Len(worker)
    <2>1. n \in Nat /\ DOMAIN worker = 1 .. n
        BY <1>1
    <2> HIDE DEF n
    <2>2. IsFiniteSet(1 .. n) /\ Cardinality(1 .. n) = IF 1 > n THEN 0 ELSE n - 1 + 1
        BY <2>1, FS_Interval
    <2>3. Cardinality(1 .. n) = n
        BY <2>1, <2>2
    <2> QED BY <2>1, <2>2, <2>3 DEF n
<1>3. Claiming \subseteq DOMAIN worker
    BY DEF Claiming
<1> QED BY <1>2, <1>3, FS_Subset, FS_CardinalityType

LEMMA HurryMoves ==
    ASSUME Typed, Hurry, NEW w, NEW r, Moves(w, r),
           \/ /\ UNCHANGED <<n_errors, late>>
              /\ r.pc = "claim" => n_errors = 0 \/ config.keep_going
           \/ /\ worker[w].pc = "claim" /\ r.pc # "claim" /\ n_errors' = n_errors
              /\ \/ n_errors = 0 /\ late' = late
                 \/ n_errors > 0 /\ \E f \in FileSet : late' = Append(late, f)
           \/ n_errors' = n_errors + 1 /\ late' = late /\ r.pc # "claim"
    PROVE  Hurry'
<1> SUFFICES ASSUME ~config.keep_going
             PROVE  /\ n_errors' = 0 => late' = <<>>
                    /\ n_errors' > 0 => /\ worker' # <<>>
                                        /\ Len(late') + Cardinality(Claiming') < Len(worker')
    BY DEF Hurry, Moves
<1>1. /\ Len(worker') = Len(worker) /\ DOMAIN worker' = DOMAIN worker /\ Len(worker) \in Nat
      /\ worker'[w] = r /\ \A v \in DOMAIN worker : v # w => worker'[v] = worker[v]
      /\ worker' # <<>> /\ w \in DOMAIN worker
    BY MoveFacts
<1>2. /\ IsFiniteSet(Claiming) /\ Cardinality(Claiming) \in Nat
      /\ IsFiniteSet(DOMAIN worker) /\ Cardinality(DOMAIN worker) = Len(worker)
    BY ClaimingFinite
<1>3. n_errors \in Nat /\ late \in Seq(FileSet)
    BY DEF Typed
<1>4. /\ n_errors = 0 => late = <<>>
      /\ n_errors > 0 => Len(late) + Cardinality(Claiming) < Len(worker)
    BY DEF Hurry
<1>5. r.pc # "claim" => Claiming' = Claiming \ {w}
    BY <1>1 DEF Claiming
<1> DEFINE C == Cardinality(Claiming)
           D == Cardinality(Claiming \ {w})
           N == Len(worker)
<1>6. D \in Nat /\ D <= C /\ (worker[w].pc = "claim" => D = C - 1)
    <2>1. D = IF w \in Claiming THEN C - 1 ELSE C
        BY <1>2, FS_RemoveElement
    <2>2. IsFiniteSet(Claiming \ {w})
        BY <1>2, FS_RemoveElement
    <2>3. D \in Nat
        BY <2>2, FS_CardinalityType
    <2>4. worker[w].pc = "claim" => w \in Claiming
        BY <1>1 DEF Claiming
    <2>5. C \in Nat
        BY <1>2
    <2> HIDE DEF C, D
    <2> QED BY <2>1, <2>3, <2>4, <2>5
<1>7. D <= N - 1
    <2>1. Claiming \ {w} \subseteq DOMAIN worker \ {w}
        BY DEF Claiming
    <2>2. IsFiniteSet(DOMAIN worker \ {w}) /\ Cardinality(DOMAIN worker \ {w}) = N - 1
        BY <1>1, <1>2, FS_RemoveElement
    <2> QED BY <2>1, <2>2, FS_Subset
<1>8. /\ C \in Nat /\ N \in Nat /\ n_errors \in Nat /\ Len(late) \in Nat
      /\ Len(worker') = N /\ (r.pc # "claim" => Cardinality(Claiming') = D)
      /\ n_errors > 0 => Len(late) + C < N
    <2>1. r.pc # "claim" => Cardinality(Claiming') = D
        BY <1>5, Zenon
    <2>2. C \in Nat /\ N \in Nat /\ n_errors \in Nat /\ Len(late) \in Nat
        BY <1>1, <1>2, <1>3
    <2>3. Len(worker') = N /\ (n_errors > 0 => Len(late) + C < N)
        BY <1>1, <1>4
    <2> QED BY <2>1, <2>2, <2>3, Zenon
<1>9. CASE UNCHANGED <<n_errors, late>> /\ (r.pc = "claim" => n_errors = 0 \/ config.keep_going)
    <2> HIDE DEF C, D, N
    <2>1. CASE n_errors = 0
        BY <1>4, <1>9, <2>1
    <2>2. CASE n_errors > 0
        <3>1. r.pc # "claim" /\ late' = late /\ n_errors' = n_errors
            BY <1>9, <2>2
        <3>2. Cardinality(Claiming') = D
            BY <1>8, <3>1
        <3> QED BY <1>1, <1>6, <1>8, <2>2, <3>1, <3>2
    <2> QED BY <1>3, <2>1, <2>2
<1>10. CASE /\ worker[w].pc = "claim" /\ r.pc # "claim" /\ n_errors' = n_errors
            /\ \/ n_errors = 0 /\ late' = late
               \/ n_errors > 0 /\ \E f \in FileSet : late' = Append(late, f)
    <2> HIDE DEF C, D, N
    <2>1. CASE n_errors = 0
        BY <1>4, <1>10, <2>1
    <2>2. CASE n_errors > 0
        <3>1. Len(late') = Len(late) + 1
            BY <1>3, <1>10, <2>2
        <3>2. Cardinality(Claiming') = D /\ D = C - 1
            BY <1>6, <1>8, <1>10
        <3> QED BY <1>1, <1>8, <1>10, <2>2, <3>1, <3>2
    <2> QED BY <1>3, <2>1, <2>2
<1>11. CASE n_errors' = n_errors + 1 /\ late' = late /\ r.pc # "claim"
    <2> HIDE DEF C, D, N
    <2>1. Cardinality(Claiming') = D
        BY <1>8, <1>11
    <2>2. CASE n_errors = 0
        <3>1. Len(late') = 0
            BY <1>4, <1>11, <2>2
        <3> QED BY <1>1, <1>6, <1>7, <1>8, <1>11, <2>1, <2>2, <3>1
    <2>3. CASE n_errors > 0
        BY <1>1, <1>6, <1>8, <1>11, <2>1, <2>3
    <2> QED BY <1>3, <2>2, <2>3
<1> QED BY <1>9, <1>10, <1>11

\* A step of a thread that is not about to print a trace: it may become so if it was the
\* first to fail, and it counts the errors it has.
LEMMA OnceMoves ==
    ASSUME Typed, Placed, Once, NEW w, NEW r, Moves(w, r), ~Tracing(worker[w]), traces' = traces,
           \/ failed' = failed /\ ~Tracing(r)
           \/ failed' = TRUE /\ ~failed /\ ~config.print_outcome
           \/ failed' = TRUE /\ ~Tracing(r),
           n_errors' \in Nat, n_errors' >= n_errors, Counting(worker[w]) => n_errors' > 0
    PROVE  Once'
<1>1. /\ DOMAIN worker' = DOMAIN worker /\ worker'[w] = r /\ worker # <<>> /\ worker' # <<>>
      /\ \A v \in DOMAIN worker : v # w => worker'[v] = worker[v]
      /\ w \in DOMAIN worker
    BY MoveFacts
<1>2. config' = config /\ content' = content
    BY DEF Moves
<1>4. failed \in BOOLEAN /\ n_errors \in Nat
    BY DEF Typed
<1>5. \A v \in DOMAIN worker' : Tracing(worker'[v]) =>
            \/ v # w /\ Tracing(worker[v])
            \/ v = w /\ ~failed /\ ~config.print_outcome /\ failed'
    BY <1>1, <1>4, Zenon
<1>6. failed' = failed \/ failed' = TRUE
    OBVIOUS
<1>7. ~failed' => ~failed
    BY <1>6, Zenon
<1>8. ~failed' => traces' = <<>> /\ \A v \in DOMAIN worker' : ~Tracing(worker'[v])
    BY <1>1, <1>5, <1>7, Zenon DEF Once
<1>9. \A v \in DOMAIN worker' : Tracing(worker'[v]) => traces' = <<>> /\ ~config'.print_outcome
    BY <1>1, <1>2, <1>5, Zenon DEF Once
<1>10. \A u, v \in DOMAIN worker' : Tracing(worker'[u]) /\ Tracing(worker'[v]) => u = v
    BY <1>1, <1>5, Zenon DEF Once
<1>11. traces' # <<>> => \/ worker' # <<>> /\ n_errors' > 0
                         \/ \E v \in DOMAIN worker' : Counting(worker'[v])
    <2> SUFFICES ASSUME traces' # <<>>, ~(n_errors' > 0)
                 PROVE  \E v \in DOMAIN worker' : Counting(worker'[v])
        BY <1>1
    <2>1. ~(n_errors > 0)
        BY <1>4
    <2>2. PICK v \in DOMAIN worker : Counting(worker[v])
        BY <2>1, Zenon DEF Once
    <2>3. v # w
        BY <2>2, Zenon
    <2> QED BY <1>1, <2>2, <2>3, Zenon
<1>12. config'.print_outcome => traces' = <<>>
    BY <1>2, Zenon DEF Once
<1>13. \A i \in DOMAIN traces' : ~SoundIn(content', traces'[i])
    BY <1>2, Zenon DEF Once
<1>14. Len(traces') <= 1
    BY DEF Once
<1> QED BY <1>8, <1>9, <1>10, <1>11, <1>12, <1>13, <1>14, Zenon DEF Once, Tracing, Counting


\* A thread prints the trace it is about to print.
LEMMA OncePrints ==
    ASSUME Typed, Placed, Once, NEW w, NEW r, Moves(w, r), Tracing(worker[w]), Counting(r),
           r.file = worker[w].file, traces' = Append(traces, r.file), failed' = failed, n_errors' = n_errors
    PROVE  Once'
<1>1. /\ DOMAIN worker' = DOMAIN worker /\ worker'[w] = r /\ w \in DOMAIN worker
      /\ \A v \in DOMAIN worker : v # w => worker'[v] = worker[v]
    BY MoveFacts
<1>2. config' = config /\ content' = content
    BY DEF Moves
<1>3. traces = <<>> /\ failed /\ ~config.print_outcome
    BY <1>1, Zenon DEF Once
<1>4. traces' = <<r.file>> /\ Len(traces') = 1 /\ DOMAIN traces' = {1} /\ traces'[1] = r.file
    BY <1>3
<1>5. ~Tracing(r)
    BY DEF Tracing, Counting
<1>6. \A v \in DOMAIN worker' : ~Tracing(worker'[v])
    BY <1>1, <1>5, Zenon DEF Once
<1>7. ~SoundIn(content, r.file)
    BY <1>1 DEF Placed, Knows, Tracing
<1>8. \A i \in DOMAIN traces' : ~SoundIn(content', traces'[i])
    BY <1>2, <1>4, <1>7
<1>9. \E v \in DOMAIN worker' : Counting(worker'[v])
    BY <1>1, Zenon
<1>10. Len(traces') <= 1
    BY <1>4
<1> QED BY <1>2, <1>3, <1>6, <1>8, <1>9, <1>10, Zenon DEF Once, Tracing, Counting

RanType == [file : FileSet, end : Ends]

\* The invariant behind a step of a thread that is not about to print a trace
LEMMA RunnerMoves ==
    ASSUME RunnerInv, NEW w, NEW r, Moves(w, r), Knows(content, Range(queue), r),
           ~Tracing(worker[w]), traces' = traces,
           \/ failed' = failed /\ ~Tracing(r)
           \/ failed' = TRUE /\ ~failed /\ ~config.print_outcome
           \/ failed' = TRUE /\ ~Tracing(r),
           idx' \in Nat, idx' <= Len(queue), ran' \in Seq(RanType),
           Counting(worker[w]) => n_errors' > 0,
           \/ /\ UNCHANGED <<n_errors, late>>
              /\ r.pc = "claim" => n_errors = 0 \/ config.keep_going
           \/ /\ worker[w].pc = "claim" /\ r.pc # "claim" /\ n_errors' = n_errors
              /\ \/ n_errors = 0 /\ late' = late
                 \/ n_errors > 0 /\ \E f \in FileSet : late' = Append(late, f)
           \/ n_errors' = n_errors + 1 /\ late' = late /\ r.pc # "claim"
    PROVE  RunnerInv'
<1>1. Typed /\ Placed /\ Once /\ Over /\ Hurry
    BY Zenon DEF RunnerInv
<1>2. n_errors \in Nat /\ late \in Seq(FileSet) /\ traces \in Seq(FileSet) /\ failed \in BOOLEAN
    BY <1>1, Zenon DEF Typed
<1>3. late' \in Seq(FileSet) /\ n_errors' \in Nat /\ n_errors' >= n_errors
    <2>1. n_errors' = n_errors \/ n_errors' = n_errors + 1
        BY Zenon
    <2>2. late' = late \/ \E f \in FileSet : late' = Append(late, f)
        BY Zenon
    <2>3. late' \in Seq(FileSet)
        BY ONLY <1>2, <2>2
    <2> QED BY ONLY <1>2, <2>1, <2>3
<1>4. failed' \in BOOLEAN
    BY <1>2, Zenon
<1>5. Typed'
    BY <1>1, <1>2, <1>3, <1>4, TypedMoves, Zenon DEF RanType
<1>6. Placed'
    BY <1>1, PlacedMoves, Zenon
<1>8. Once'
    BY <1>1, <1>3, OnceMoves, Zenon
<1>9. Over'
    BY <1>1, OverMoves, Zenon
<1>11. Hurry'
    BY <1>1, HurryMoves, Zenon
<1> QED BY <1>5, <1>6, <1>8, <1>9, <1>11, Zenon DEF RunnerInv

\* A thread, its queue and its file
LEMMA ThreadFacts ==
    ASSUME RunnerInv, NEW w \in DOMAIN worker
    PROVE  /\ Typed /\ Placed /\ worker # <<>> /\ worker[w] \in WorkerType
           /\ queue \in Seq(FileSet) /\ Range(queue) \subseteq FileSet
           /\ n_errors \in Nat /\ idx \in Nat /\ idx <= Len(queue) /\ Len(queue) \in Nat
           /\ ran \in Seq(RanType) /\ late \in Seq(FileSet) /\ failed \in BOOLEAN
           /\ Knows(content, Range(queue), worker[w])
<1>1. Typed /\ Placed
    BY Zenon DEF RunnerInv
<1>2. worker # <<>>
    BY <1>1 DEF Typed
<1>3. queue \in Seq(FileSet) /\ idx <= Len(queue) /\ Knows(content, Range(queue), worker[w])
    BY <1>1, <1>2, Zenon DEF Placed
<1>4. Range(queue) \subseteq FileSet /\ Len(queue) \in Nat
    BY <1>3 DEF Range
<1>5. n_errors \in Nat /\ idx \in Nat /\ ran \in Seq(RanType) /\ late \in Seq(FileSet) /\ failed \in BOOLEAN
    BY <1>1, Zenon DEF Typed, RanType
<1> QED BY <1>1, <1>2, <1>3, <1>4, <1>5, ThreadTyped, Zenon

\* A suite that ends is recorded with its file.
LEMMA FinishesRan ==
    ASSUME ran \in Seq(RanType), NEW w, NEW r \in WorkerType, NEW e \in Ends, Finishes(w, r, e),
           worker[w].file \in FileSet
    PROVE  ran' \in Seq(RanType)
<1>1. [file |-> worker[w].file, end |-> e] \in RanType
    BY DEF RanType
<1> QED BY <1>1 DEF Finishes

\* What a thread knows of a suite that ends
LEMMA FinishesKnows ==
    ASSUME NEW files, NEW w, NEW r, NEW e, Finishes(w, r, e), Deserved(r.file, e), r.file \in files
    PROVE  /\ Knows(content, files, r) /\ r.pc # "claim" /\ ~Tracing(r) /\ ~Holding(r)
           /\ r.pc \in {"count", "ended"}
<1>1. \/ r.pc = "ended" /\ e = "Panic" /\ r.end = "Panic" /\ ~SoundIn(content, r.file)
      \/ r.pc = "count" /\ r.end = "Ok" /\ SoundIn(content, r.file)
      \/ r.pc = "count" /\ r.end = "Err" /\ ~SoundIn(content, r.file)
    BY DEF Finishes, Deserved
<1> QED BY <1>1 DEF Knows, Tracing, Holding

LEMMA LoadErrorsKeeps ==
    ASSUME RunnerInv, NEW w \in DOMAIN worker, LoadErrors(w)
    PROVE  RunnerInv'
<1>1. /\ Typed /\ Placed /\ queue \in Seq(FileSet) /\ n_errors \in Nat /\ idx \in Nat /\ idx <= Len(queue)
      /\ ran \in Seq(RanType)
    BY ThreadFacts, Zenon
<1>2. PICK r : /\ Moves(w, r) /\ worker[w].pc = "load"
               /\ UNCHANGED <<failed, idx, n_errors, ran, late, traces>>
               /\ \/ r.pc = "ended" /\ r.end = "Ok" /\ ~config.keep_going /\ n_errors > 0
                  \/ r.pc = "claim" /\ (config.keep_going \/ n_errors = 0)
    BY <1>1, LoadErrorsMoves, Zenon
<1>3. Knows(content, Range(queue), r)
    BY <1>2 DEF Knows
<1>4. ~Tracing(worker[w]) /\ ~Tracing(r) /\ ~Counting(worker[w])
    BY <1>2 DEF Tracing, Counting
<1>5. r.pc = "claim" => n_errors = 0 \/ config.keep_going
    BY <1>2
<1> QED BY <1>1, <1>2, <1>3, <1>4, <1>5, RunnerMoves, Zenon

LEMMA NextTestKeeps ==
    ASSUME RunnerInv, NEW w \in DOMAIN worker, NextTest(w)
    PROVE  RunnerInv'
<1>1. /\ Typed /\ Placed /\ queue \in Seq(FileSet) /\ n_errors \in Nat /\ idx \in Nat /\ idx <= Len(queue)
      /\ ran \in Seq(RanType) /\ Len(queue) \in Nat
    BY ThreadFacts, Zenon
<1>2. PICK r : /\ Moves(w, r) /\ worker[w].pc = "claim"
               /\ UNCHANGED <<failed, n_errors, ran, traces>>
               /\ \/ /\ idx < Len(queue) /\ idx' = idx + 1 /\ queue[idx + 1] \in FileSet
                     /\ r.pc = "open" /\ r.file = queue[idx + 1] /\ r.pos = 0
                     /\ \/ n_errors > 0 /\ late' = Append(late, queue[idx + 1])
                        \/ n_errors = 0 /\ late' = late
                  \/ /\ ~(idx < Len(queue)) /\ idx' = idx /\ late' = late
                     /\ r.pc = "ended" /\ r.end = "Ok"
    BY <1>1, NextTestMoves, Zenon
<1>3. Knows(content, Range(queue), r)
    <2>1. CASE idx < Len(queue) /\ r.pc = "open" /\ r.file = queue[idx + 1] /\ r.pos = 0
        <3>1. r.file \in Range(queue)
            BY <1>1, <2>1 DEF Range
        <3> QED BY <2>1, <3>1 DEF Knows
    <2>2. CASE r.pc = "ended" /\ r.end = "Ok"
        BY <2>2 DEF Knows
    <2> QED BY <1>2, <2>1, <2>2
<1>4. ~Tracing(worker[w]) /\ ~Tracing(r) /\ ~Counting(worker[w]) /\ r.pc # "claim"
    BY <1>2 DEF Tracing, Counting
<1>5. idx' \in Nat /\ idx' <= Len(queue)
    BY <1>1, <1>2
<1>6. \/ UNCHANGED <<n_errors, late>>
      \/ /\ worker[w].pc = "claim" /\ r.pc # "claim" /\ n_errors' = n_errors
         /\ \/ n_errors = 0 /\ late' = late
            \/ n_errors > 0 /\ \E f \in FileSet : late' = Append(late, f)
    BY <1>2, <1>4, Zenon
<1> QED BY <1>1, <1>2, <1>3, <1>4, <1>5, <1>6, RunnerMoves, Zenon

LEMMA OpenSuiteKeeps ==
    ASSUME RunnerInv, NEW w \in DOMAIN worker, OpenSuite(w)
    PROVE  RunnerInv'
<1>1. /\ Typed /\ Placed /\ n_errors \in Nat /\ idx \in Nat /\ idx <= Len(queue)
      /\ ran \in Seq(RanType) /\ Range(queue) \subseteq FileSet /\ Knows(content, Range(queue), worker[w])
    BY ThreadFacts, Zenon
<1>2. PICK r : /\ Moves(w, r) /\ worker[w].pc = "open" /\ r.file = worker[w].file
               /\ UNCHANGED <<failed, idx, n_errors, late, traces>>
               /\ \/ /\ r.pc = "test" /\ r.pos = 0 /\ content[r.file].kind = "suite" /\ ran' = ran
                  \/ \E e \in Ends : Finishes(w, r, e) /\ Deserved(r.file, e)
    BY <1>1, OpenSuiteMoves, Zenon
<1>3. r.file \in Range(queue) /\ r \in WorkerType
    BY <1>1, <1>2 DEF Knows, Moves
<1>4. ~Tracing(worker[w]) /\ ~Counting(worker[w])
    BY <1>2 DEF Tracing, Counting
<1>5. CASE r.pc = "test" /\ r.pos = 0 /\ content[r.file].kind = "suite" /\ ran' = ran
    <2>1. Knows(content, Range(queue), r)
        BY <1>3, <1>5 DEF Knows
    <2>2. ~Tracing(r) /\ r.pc # "claim"
        BY <1>5 DEF Tracing
    <2> QED BY <1>1, <1>2, <1>4, <1>5, <2>1, <2>2, RunnerMoves, Zenon
<1>6. ASSUME NEW e \in Ends, Finishes(w, r, e), Deserved(r.file, e) PROVE RunnerInv'
    <2>1. ran' \in Seq(RanType)
        BY <1>1, <1>2, <1>3, <1>6, FinishesRan
    <2>2. Knows(content, Range(queue), r) /\ r.pc # "claim" /\ ~Tracing(r)
        BY <1>3, <1>6, FinishesKnows, Zenon
    <2> QED BY <1>1, <1>2, <1>4, <2>1, <2>2, RunnerMoves, Zenon
<1> QED BY <1>2, <1>5, <1>6, Zenon

LEMMA ExecuteTestKeeps ==
    ASSUME RunnerInv, NEW w \in DOMAIN worker, ExecuteTest(w)
    PROVE  RunnerInv'
<1>1. /\ Typed /\ Placed /\ n_errors \in Nat /\ idx \in Nat /\ idx <= Len(queue)
      /\ ran \in Seq(RanType) /\ Range(queue) \subseteq FileSet /\ Knows(content, Range(queue), worker[w])
      /\ worker[w] \in WorkerType
    BY ThreadFacts, Zenon
<1>2. PICK r : /\ Moves(w, r) /\ worker[w].pc = "test" /\ r.file = worker[w].file
               /\ UNCHANGED <<idx, n_errors, late, traces>>
               /\ \/ /\ r.pc = "test" /\ r.pos = worker[w].pos + 1 /\ UNCHANGED <<ran, failed>>
                     /\ Holds(content[r.file].tests[r.pos])
                  \/ /\ r.pc = "trace" /\ ran' = ran /\ ~failed /\ failed' = TRUE
                     /\ ~config.print_outcome /\ ~SoundIn(content, r.file)
                  \/ /\ failed' = failed \/ failed' = TRUE
                     /\ \E e \in Ends : Finishes(w, r, e) /\ Deserved(r.file, e)
    BY <1>1, ExecuteTestMoves, Zenon
<1>3. r.file \in Range(queue) /\ r \in WorkerType
    BY <1>1, <1>2 DEF Knows, Moves
<1>4. ~Tracing(worker[w]) /\ ~Counting(worker[w])
    BY <1>2 DEF Tracing, Counting
<1>5. CASE /\ r.pc = "test" /\ r.pos = worker[w].pos + 1 /\ UNCHANGED <<ran, failed>>
           /\ Holds(content[r.file].tests[r.pos])
    <2>1. Knows(content, Range(queue), r)
        <3>1. /\ content[r.file].kind = "suite"
              /\ \A i \in 1 .. worker[w].pos : Holds(content[r.file].tests[i])
            BY <1>1, <1>2 DEF Knows
        <3>2. worker[w].pos \in Nat
            BY <1>1 DEF WorkerType
        <3>3. \A i \in 1 .. r.pos : i \in 1 .. worker[w].pos \/ i = r.pos
            BY <1>5, <3>2
        <3>4. \A i \in 1 .. r.pos : Holds(content[r.file].tests[i])
            BY <1>5, <3>1, <3>3, Zenon
        <3> QED BY <1>3, <1>5, <3>1, <3>4 DEF Knows
    <2>2. ~Tracing(r) /\ r.pc # "claim"
        BY <1>5 DEF Tracing
    <2> QED BY <1>1, <1>2, <1>4, <1>5, <2>1, <2>2, RunnerMoves, Zenon
<1>6. CASE /\ r.pc = "trace" /\ ran' = ran /\ ~failed /\ failed' = TRUE
           /\ ~config.print_outcome /\ ~SoundIn(content, r.file)
    <2>1. Knows(content, Range(queue), r) /\ r.pc # "claim"
        BY <1>3, <1>6 DEF Knows
    <2> QED BY <1>1, <1>2, <1>4, <1>6, <2>1, RunnerMoves, Zenon
<1>7. ASSUME failed' = failed \/ failed' = TRUE,
             NEW e \in Ends, Finishes(w, r, e), Deserved(r.file, e) PROVE RunnerInv'
    <2>1. ran' \in Seq(RanType)
        BY <1>1, <1>2, <1>3, <1>7, FinishesRan
    <2>2. Knows(content, Range(queue), r) /\ r.pc # "claim" /\ ~Tracing(r)
        BY <1>3, <1>7, FinishesKnows, Zenon
    <2> QED BY <1>1, <1>2, <1>4, <1>7, <2>1, <2>2, RunnerMoves, Zenon
<1> QED BY <1>2, <1>5, <1>6, <1>7, Zenon

LEMMA DebugFailedTestKeeps ==
    ASSUME RunnerInv, NEW w \in DOMAIN worker, DebugFailedTest(w)
    PROVE  RunnerInv'
<1>1. /\ Typed /\ Placed /\ n_errors \in Nat /\ idx \in Nat /\ idx <= Len(queue)
      /\ ran \in Seq(RanType) /\ Range(queue) \subseteq FileSet /\ Knows(content, Range(queue), worker[w])
      /\ late \in Seq(FileSet) /\ failed \in BOOLEAN
    BY ThreadFacts, Zenon
<1>2. PICK r : /\ Moves(w, r) /\ worker[w].pc = "trace" /\ r.file = worker[w].file
               /\ UNCHANGED <<failed, idx, n_errors, late>>
               /\ traces' = Append(traces, r.file) /\ Finishes(w, r, "Err")
    BY <1>1, DebugFailedTestMoves, Zenon
<1>3. r.file \in Range(queue) /\ r \in WorkerType /\ ~SoundIn(content, r.file) /\ "Err" \in Ends
    BY <1>1, <1>2 DEF Knows, Moves, Ends
<1>4. r.pc = "count" /\ r.end = "Err" /\ Deserved(r.file, "Err")
    BY <1>2, <1>3 DEF Finishes, Deserved
<1>5. Tracing(worker[w]) /\ Counting(r) /\ r.pc # "claim"
    BY <1>2, <1>4 DEF Tracing, Counting
<1>6. ran' \in Seq(RanType)
    BY <1>1, <1>2, <1>3, FinishesRan
<1>7. Knows(content, Range(queue), r)
    BY <1>2, <1>3, <1>4, FinishesKnows, Zenon
<1>8. traces' \in Seq(FileSet)
    <2>1. traces \in Seq(FileSet)
        BY <1>1, Zenon DEF Typed
    <2> QED BY <1>1, <1>2, <1>3, <2>1
<1>9. Once /\ Over /\ Hurry
    BY Zenon DEF RunnerInv
<1>10. Typed'
    BY <1>1, <1>2, <1>6, <1>8, TypedMoves, Zenon DEF RanType
<1>11. Placed'
    BY <1>1, <1>2, <1>7, PlacedMoves, Zenon
<1>12. Once'
    BY <1>1, <1>2, <1>5, <1>9, OncePrints, Zenon
<1>13. Over'
    BY <1>1, <1>2, <1>9, OverMoves, Zenon
<1>14. Hurry'
    BY <1>1, <1>2, <1>5, <1>9, HurryMoves, Zenon
<1> QED BY <1>10, <1>11, <1>12, <1>13, <1>14, Zenon DEF RunnerInv

LEMMA CountResultKeeps ==
    ASSUME RunnerInv, NEW w \in DOMAIN worker, CountResult(w)
    PROVE  RunnerInv'
<1>1. /\ Typed /\ n_errors \in Nat /\ idx \in Nat /\ idx <= Len(queue)
      /\ ran \in Seq(RanType) /\ Knows(content, Range(queue), worker[w])
    BY ThreadFacts, Zenon
<1>2. PICK r : /\ Moves(w, r) /\ worker[w].pc = "count" /\ r.file = worker[w].file
               /\ UNCHANGED <<failed, idx, ran, late, traces>>
               /\ \/ /\ worker[w].end = "Err" /\ n_errors' = n_errors + 1 /\ ~config.keep_going
                     /\ r.pc = "ended" /\ r.end = "Err"
                  \/ /\ worker[w].end = "Err" /\ n_errors' = n_errors + 1 /\ config.keep_going
                     /\ r.pc = "load"
                  \/ worker[w].end # "Err" /\ n_errors' = n_errors /\ r.pc = "load"
    BY <1>1, CountResultMoves, Zenon
<1>3. /\ worker[w].file \in Range(queue)
      /\ worker[w].end = "Err" => ~SoundIn(content, worker[w].file)
    BY <1>1, <1>2 DEF Knows
<1>4. Knows(content, Range(queue), r)
    BY <1>2, <1>3 DEF Knows
<1>5. ~Tracing(worker[w]) /\ ~Tracing(r) /\ r.pc # "claim"
    BY <1>2 DEF Tracing
<1>6. Counting(worker[w]) => n_errors' > 0
    BY <1>1, <1>2 DEF Counting
<1>7. UNCHANGED <<n_errors, late>> \/ (n_errors' = n_errors + 1 /\ late' = late)
    BY <1>2, Zenon
<1> QED BY <1>1, <1>2, <1>4, <1>5, <1>6, <1>7, RunnerMoves, Zenon

-----------------------------------------------------------------------------
(* The steps of the main thread *)

\* A path with a file has a thread at least.
LEMMA ThreadCount ==
    ASSUME Typed, NEW n \in Nat, n > 0
    PROVE  determine_thread_count(n) \in Nat /\ determine_thread_count(n) > 0
<1>1. config.parallelism \in Nat
    BY ContentTyped DEF Typed
<1> DEFINE p == config.parallelism
           s == config.single_thread
<1>2. determine_thread_count(n) = IF s \/ p = 0 THEN 1 ELSE IF p < n THEN p ELSE n
    BY DEF determine_thread_count
<1> HIDE DEF p, s
<1>3. p \in Nat
    BY <1>1 DEF p
<1>4. CASE s \/ p = 0
    BY <1>2, <1>4
<1>5. CASE ~(s \/ p = 0)
    BY <1>2, <1>3, <1>5
<1> QED BY <1>4, <1>5

\* Threads that are about to load the counter
Started(k) == [i \in 1 .. k |-> Fresh]

LEMMA StartedFacts ==
    ASSUME NEW k \in Nat, k > 0
    PROVE  /\ Started(k) \in Seq(WorkerType) /\ Len(Started(k)) = k /\ Started(k) # <<>>
           /\ \A w \in DOMAIN Started(k) : Started(k)[w] = Fresh
           /\ Fresh \in WorkerType /\ Fresh.pc = "load"
<1>1. Fresh \in WorkerType /\ Fresh.pc = "load"
    BY DEF Fresh, WorkerType, Pcs, Ends
<1> HIDE DEF Fresh
<1>2. Started(k) \in Seq(WorkerType) /\ Len(Started(k)) = k
    BY <1>1 DEF Started
<1>3. Started(k) # <<>>
    BY <1>2
<1>4. \A w \in DOMAIN Started(k) : Started(k)[w] = Fresh
    BY DEF Started
<1> QED BY <1>1, <1>2, <1>3, <1>4

LEMMA NextPathMoves ==
    ASSUME Typed, Placed, NextPath
    PROVE  /\ verdict = "none" /\ worker = <<>> /\ path' = path + 1 /\ path <= Len(paths)
           /\ UNCHANGED <<paths, content, config, failed, ran, late, traces>>
           /\ idx' = 0 /\ n_errors' = 0 /\ joined' = 0 /\ thread_errors' = <<>>
           /\ \/ verdict' = "pass" /\ path' = Len(paths) + 1 /\ worker' = <<>>
              \/ verdict' = "err" /\ path' \in 1 .. Len(paths) /\ worker' = <<>> /\ queue' \in {Missing, <<>>}
              \/ /\ verdict' = "none" /\ path' \in 1 .. Len(paths) /\ queue' \in Seq(FileSet) /\ queue' # Missing
                 /\ \E k \in Nat : k > 0 /\ worker' = Started(k)
<1>1. /\ verdict = "none" /\ worker = <<>> /\ path' = path + 1
      /\ UNCHANGED <<paths, content, config, failed, ran, late, traces>>
      /\ idx' = 0 /\ n_errors' = 0 /\ joined' = 0 /\ thread_errors' = <<>>
      /\ verdict' = IF path = Len(paths) THEN "pass"
                    ELSE IF paths[path + 1] \in {Missing, <<>>} THEN "err" ELSE "none"
      /\ worker' = IF verdict' = "none" THEN Started(determine_thread_count(Len(paths[path + 1]))) ELSE <<>>
    BY DEF NextPath, input, history, Started
<1>2. path \in Nat /\ path <= Len(paths)
    BY <1>1 DEF Typed, Placed
<1>3. paths \in Seq({Missing} \cup Seq(FileSet)) /\ Len(paths) \in Nat
    BY ContentTyped
<1>4. CASE path = Len(paths)
    <2>1. verdict' = "pass"
        BY <1>1, <1>4
    <2>2. worker' = <<>> /\ path' = Len(paths) + 1
        BY <1>1, <1>4, <2>1
    <2> QED BY <1>1, <1>2, <2>1, <2>2, Zenon
<1>5. CASE path # Len(paths)
    <2>1. path + 1 \in 1 .. Len(paths)
        BY <1>2, <1>3, <1>5
    <2> DEFINE q == paths[path + 1]
    <2>2. queue' = q
        BY <1>1 DEF queue
    <2>3. q \in {Missing} \cup Seq(FileSet)
        BY <1>3, <2>1
    <2>4. /\ verdict' = IF q \in {Missing, <<>>} THEN "err" ELSE "none"
          /\ worker' = IF verdict' = "none" THEN Started(determine_thread_count(Len(q))) ELSE <<>>
        BY <1>1, <1>5
    <2> HIDE DEF q
    <2>5. CASE q \in {Missing, <<>>}
        <3>1. verdict' = "err" /\ worker' = <<>>
            BY <2>4, <2>5
        <3> QED BY <1>1, <1>2, <2>1, <2>2, <2>5, <3>1, Zenon
    <2>6. CASE q \notin {Missing, <<>>}
        <3>1. verdict' = "none" /\ q \in Seq(FileSet) /\ q # <<>> /\ q # Missing
            BY <2>3, <2>4, <2>6
        <3>2. Len(q) \in Nat /\ Len(q) > 0
            BY <3>1
        <3> DEFINE k == determine_thread_count(Len(q))
        <3>3. k \in Nat /\ k > 0
            BY <3>2, ThreadCount, Zenon
        <3>4. worker' = Started(k)
            BY <2>4, <3>1, Zenon
        <3> HIDE DEF k
        <3> QED BY <1>1, <1>2, <2>1, <2>2, <3>1, <3>3, <3>4, Zenon
    <2> QED BY <2>5, <2>6
<1> QED BY <1>4, <1>5

LEMMA NextPathKeeps ==
    ASSUME RunnerInv, NextPath
    PROVE  RunnerInv'
<1>1. Typed /\ Placed /\ Once /\ Over /\ Hurry
    BY Zenon DEF RunnerInv
<1>2. /\ verdict = "none" /\ worker = <<>> /\ path' = path + 1 /\ path <= Len(paths)
      /\ UNCHANGED <<paths, content, config, failed, ran, late, traces>>
      /\ idx' = 0 /\ n_errors' = 0 /\ joined' = 0 /\ thread_errors' = <<>>
      /\ \/ verdict' = "pass" /\ path' = Len(paths) + 1 /\ worker' = <<>>
         \/ verdict' = "err" /\ path' \in 1 .. Len(paths) /\ worker' = <<>> /\ queue' \in {Missing, <<>>}
         \/ /\ verdict' = "none" /\ path' \in 1 .. Len(paths) /\ queue' \in Seq(FileSet) /\ queue' # Missing
            /\ \E k \in Nat : k > 0 /\ worker' = Started(k)
    BY <1>1, NextPathMoves, Zenon
<1>3. FileSet' = FileSet /\ WorkerType' = WorkerType /\ path \in Nat
    BY <1>1, <1>2 DEF FileSet, WorkerType, Typed
<1>4. \/ worker' = <<>> /\ verdict' # "none"
      \/ /\ worker' \in Seq(WorkerType) /\ verdict' = "none" /\ path' \in 1 .. Len(paths) /\ queue' \in Seq(FileSet)
         /\ \A w \in DOMAIN worker' : worker'[w] = Fresh
    BY <1>2, StartedFacts, Zenon
<1>5. worker' \in Seq(WorkerType)
    <2>1. <<>> \in Seq(WorkerType)
        BY ONLY SMT
    <2> QED BY <1>4, <2>1, Zenon
<1>6. Fresh.pc = "load"
    BY DEF Fresh
<1>7. \A w \in DOMAIN worker' : worker'[w].pc = "load" /\ verdict' = "none"
    BY <1>4, <1>6
<1>8. DOMAIN worker = {} /\ \A w \in DOMAIN worker' : w \in Nat /\ w > 0
    BY <1>2, <1>5
<1>9. Typed'
    <2>1. 0 \in Nat /\ <<>> \in Seq(Ends) /\ path' \in Nat
        BY <1>2, <1>3
    <2> QED BY <1>1, <1>2, <1>3, <1>5, <2>1, Zenon DEF Typed
<1>10. Placed'
    <2>1. \A w \in DOMAIN worker' : Knows(content', Range(queue'), worker'[w])
        BY <1>7 DEF Knows
    <2>2. worker' # <<>> => /\ queue' \in Seq(FileSet') /\ verdict' # "pass" /\ path' \in 1 .. Len(paths')
                            /\ idx' <= Len(queue')
        BY <1>2, <1>3, <1>4
    <2>3. verdict' = "none" => path' <= Len(paths')
        BY <1>2, <1>4
    <2> QED BY <2>1, <2>2, <2>3, Zenon DEF Placed
<1>11. Once'
    <2>1. traces = <<>>
        BY <1>1, <1>2, <1>8 DEF Once
    <2>2. \A w \in DOMAIN worker' : ~Tracing(worker'[w])
        BY <1>7 DEF Tracing
    <2>3. traces' = <<>> /\ DOMAIN traces' = {} /\ Len(traces') <= 1
        BY <1>2, <2>1
    <2> QED BY <2>2, <2>3 DEF Once, Tracing, Counting
<1>12. Over'
    BY <1>2, <1>7, <1>8 DEF Over
<1>13. Hurry'
    <2>1. ~config.keep_going => late = <<>>
        BY <1>1, <1>2 DEF Hurry, Typed
    <2> QED BY <1>2, <2>1 DEF Hurry
<1> QED BY <1>9, <1>10, <1>11, <1>12, <1>13, Zenon DEF RunnerInv

LEMMA JoinMoves ==
    ASSUME Typed, Join
    PROVE  /\ UNCHANGED <<paths, content, config, path, verdict, failed, idx, n_errors, worker, ran, late, traces>>
           /\ verdict = "none" /\ joined' = joined + 1 /\ joined' \in DOMAIN worker /\ worker[joined'].pc = "ended"
           /\ \/ worker[joined'].end = "Ok" /\ thread_errors' = thread_errors
              \/ worker[joined'].end # "Ok" /\ thread_errors' = Append(thread_errors, worker[joined'].end)
<1>1. /\ UNCHANGED <<paths, content, config, path, verdict, failed, idx, n_errors, worker, ran, late, traces>>
      /\ verdict = "none" /\ joined' = joined + 1 /\ joined < Len(worker)
      /\ worker[joined + 1].pc = "ended"
      /\ thread_errors' = IF worker[joined + 1].end = "Ok" THEN thread_errors
                          ELSE Append(thread_errors, worker[joined + 1].end)
    BY DEF Join, running, input, shared, history
<1>2. joined \in Nat /\ worker \in Seq(WorkerType)
    BY DEF Typed
<1>3. joined + 1 \in DOMAIN worker
    BY <1>1, <1>2
<1> QED BY <1>1, <1>3

LEMMA JoinKeeps ==
    ASSUME RunnerInv, Join
    PROVE  RunnerInv'
<1>1. Typed /\ Placed /\ Once /\ Over /\ Hurry
    BY Zenon DEF RunnerInv
<1>2. /\ UNCHANGED <<paths, content, config, path, verdict, failed, idx, n_errors, worker, ran, late, traces>>
      /\ verdict = "none" /\ joined' = joined + 1 /\ joined' \in DOMAIN worker /\ worker[joined'].pc = "ended"
      /\ \/ worker[joined'].end = "Ok" /\ thread_errors' = thread_errors
         \/ worker[joined'].end # "Ok" /\ thread_errors' = Append(thread_errors, worker[joined'].end)
    BY <1>1, JoinMoves, Zenon
<1>3. UNCHANGED <<FileSet, WorkerType, queue, Claiming>>
    BY <1>2 DEF FileSet, WorkerType, queue, Claiming
<1>4. Typed'
    <2>1. joined \in Nat /\ thread_errors \in Seq(Ends) /\ worker[joined'].end \in Ends
        <3>1. worker[joined'] \in WorkerType
            BY <1>1, <1>2, ThreadTyped
        <3>2. worker[joined'].end \in Ends
            BY <3>1 DEF WorkerType
        <3> QED BY <1>1, <3>2, Zenon DEF Typed
    <2>2. joined' \in Nat /\ thread_errors' \in Seq(Ends)
        BY <1>2, <2>1
    <2> QED BY <1>1, <1>2, <1>3, <2>2, Zenon DEF Typed
<1>5. Placed'
    BY <1>1, <1>2, <1>3, Zenon DEF Placed
<1>6. Once'
    BY <1>1, <1>2, Zenon DEF Once, Tracing, Counting
<1>7. Over'
    <2>1. joined \in Nat /\ \A w \in DOMAIN worker : w \in Nat
        BY <1>1 DEF Typed
    <2>2. \A w \in DOMAIN worker : w <= joined' => w <= joined \/ w = joined'
        BY <1>2, <2>1
    <2> QED BY <1>1, <1>2, <2>2, Zenon DEF Over
<1>8. Hurry'
    BY <1>1, <1>2, <1>3, Zenon DEF Hurry
<1> QED BY <1>4, <1>5, <1>6, <1>7, <1>8, Zenon DEF RunnerInv

LEMMA SummaryMoves ==
    ASSUME Typed, Summary
    PROVE  /\ UNCHANGED <<paths, content, config, path, joined, thread_errors, failed, idx, n_errors, ran, late, traces>>
           /\ verdict = "none" /\ joined = Len(worker) /\ worker # <<>> /\ path > 0
           /\ \/ verdict' = "err" /\ thread_errors # <<>> /\ worker' = worker
              \/ verdict' = "none" /\ thread_errors = <<>> /\ n_errors = 0 /\ worker' = <<>>
              \/ verdict' = "exit" /\ thread_errors = <<>> /\ n_errors > 0 /\ worker' = worker
<1>1. /\ UNCHANGED <<paths, content, config, path, joined, thread_errors, failed, idx, n_errors, ran, late, traces>>
      /\ verdict = "none" /\ joined = Len(worker) /\ worker # <<>> /\ path > 0
      /\ verdict' = IF thread_errors # <<>> THEN "err" ELSE IF n_errors = 0 THEN "none" ELSE "exit"
      /\ worker' = IF verdict' = "none" THEN <<>> ELSE worker
    BY DEF Summary, running, input, shared, history
<1>2. n_errors \in Nat
    BY DEF Typed
<1>3. CASE thread_errors # <<>>
    BY <1>1, <1>3
<1>4. CASE thread_errors = <<>> /\ n_errors = 0
    BY <1>1, <1>4
<1>5. CASE thread_errors = <<>> /\ n_errors # 0
    BY <1>1, <1>2, <1>5
<1> QED BY <1>3, <1>4, <1>5

LEMMA SummaryKeeps ==
    ASSUME RunnerInv, Summary
    PROVE  RunnerInv'
<1>1. Typed /\ Placed /\ Once /\ Over /\ Hurry
    BY Zenon DEF RunnerInv
<1>2. /\ UNCHANGED <<paths, content, config, path, joined, thread_errors, failed, idx, n_errors, ran, late, traces>>
      /\ verdict = "none" /\ joined = Len(worker) /\ worker # <<>> /\ path > 0
      /\ \/ verdict' = "err" /\ thread_errors # <<>> /\ worker' = worker
         \/ verdict' = "none" /\ thread_errors = <<>> /\ n_errors = 0 /\ worker' = <<>>
         \/ verdict' = "exit" /\ thread_errors = <<>> /\ n_errors > 0 /\ worker' = worker
    BY <1>1, SummaryMoves, Zenon
<1>3. UNCHANGED <<FileSet, WorkerType, queue>>
    BY <1>2 DEF FileSet, WorkerType, queue
<1>4. \A w \in DOMAIN worker : worker[w].pc = "ended"
    <2>1. \A w \in DOMAIN worker : w <= joined
        BY <1>1, <1>2 DEF Typed
    <2> QED BY <1>1, <2>1, Zenon DEF Over
<1>5. CASE worker' = worker /\ verdict' \in {"err", "exit"}
    <2>1. Typed'
        BY <1>1, <1>2, <1>3, <1>5, Zenon DEF Typed
    <2>2. Placed'
        <3>1. verdict' # "none" /\ verdict' # "pass"
            BY <1>5
        <3> QED BY <1>1, <1>2, <1>3, <1>5, <3>1, Zenon DEF Placed
    <2>3. Once'
        BY <1>1, <1>2, <1>5, Zenon DEF Once, Tracing, Counting
    <2>4. Over'
        BY <1>1, <1>2, <1>4, <1>5, Zenon DEF Over
    <2>5. Hurry'
        BY <1>1, <1>2, <1>5 DEF Hurry, Claiming
    <2> QED BY <2>1, <2>2, <2>3, <2>4, <2>5, Zenon DEF RunnerInv
<1>6. CASE worker' = <<>> /\ verdict' = "none" /\ n_errors = 0
    <2>1. worker' \in Seq(WorkerType') /\ DOMAIN worker' = {}
        BY <1>6
    <2>2. Typed'
        BY <1>1, <1>2, <1>3, <2>1, Zenon DEF Typed
    <2>3. Placed'
        BY <1>1, <1>2, <1>6, <2>1 DEF Placed
    <2>4. Once'
        <3>1. ~(n_errors > 0)
            BY <1>6
        <3>2. \A w \in DOMAIN worker : ~Counting(worker[w])
            BY <1>4 DEF Counting
        <3>3. traces' = <<>>
            BY <1>1, <1>2, <3>1, <3>2, Zenon DEF Once
        <3>4. DOMAIN traces' = {} /\ Len(traces') <= 1
            BY <3>3
        <3> QED BY <2>1, <3>3, <3>4, Zenon DEF Once
    <2>5. Over'
        BY <1>2, <2>1 DEF Over
    <2>6. Hurry'
        <3>1. ~(n_errors' > 0)
            BY <1>2, <1>6
        <3> QED BY <1>1, <1>2, <1>6, <3>1, Zenon DEF Hurry
    <2> QED BY <2>2, <2>3, <2>4, <2>5, <2>6, Zenon DEF RunnerInv
<1> QED BY <1>2, <1>5, <1>6

LEMMA InitKeeps == Init => RunnerInv
<1> SUFFICES ASSUME Init PROVE RunnerInv
    OBVIOUS
<1>1. /\ paths \in CommandLines /\ content \in Contents /\ failed = FALSE
      /\ path = 0 /\ idx = 0 /\ n_errors = 0 /\ worker = <<>>
      /\ thread_errors = <<>> /\ joined = 0 /\ verdict = "none"
      /\ ran = <<>> /\ late = <<>> /\ traces = <<>>
    BY Zenon DEF Init
<1>2. config.parallelism \in Parallelism
    <2>1. PICK s, t, o, k \in BOOLEAN, n \in Parallelism : config = TestRunnerConfig(s, t, o, k, n)
        BY Zenon DEF Init
    <2> QED BY <2>1 DEF TestRunnerConfig
<1>3. 0 \in Nat /\ FALSE \in BOOLEAN /\ DOMAIN worker = {} /\ DOMAIN traces = {}
    BY <1>1
<1>4. worker \in Seq(WorkerType) /\ late \in Seq(FileSet) /\ traces \in Seq(FileSet)
      /\ ran \in Seq([file : FileSet, end : Ends]) /\ thread_errors \in Seq(Ends)
    BY <1>1
<1>5. Typed
    BY <1>1, <1>2, <1>3, <1>4, Zenon DEF Typed
<1>6. Placed
    <2>1. Len(paths) \in Nat
        BY <1>5, ContentTyped
    <2> QED BY <1>1, <1>3, <2>1 DEF Placed
<1>7. Once
    BY <1>1, <1>3 DEF Once
<1>8. Over
    BY <1>1, <1>3 DEF Over
<1>9. Hurry
    BY <1>1 DEF Hurry
<1> QED BY <1>5, <1>6, <1>7, <1>8, <1>9, Zenon DEF RunnerInv

LEMMA StepKeeps == RunnerInv /\ [Next]_vars => RunnerInv'
<1> SUFFICES ASSUME RunnerInv, [Next]_vars PROVE RunnerInv'
    OBVIOUS
<1>1. ASSUME NEW w \in DOMAIN worker, Worker(w) PROVE RunnerInv'
    BY <1>1, LoadErrorsKeeps, NextTestKeeps, OpenSuiteKeeps, ExecuteTestKeeps, DebugFailedTestKeeps,
       CountResultKeeps, Zenon DEF Worker
<1>2. CASE UNCHANGED vars
    <2>1. UNCHANGED <<paths, content, config, path, joined, thread_errors, verdict, failed, idx, n_errors, worker,
                      ran, late, traces>>
        BY <1>2 DEF vars, input, main, shared, history
    <2> QED BY <2>1 DEF RunnerInv, Typed, Placed, Once, Over, Hurry, FileSet, WorkerType, queue, Claiming,
                        Tracing, Counting
<1> QED BY <1>1, <1>2, NextPathKeeps, JoinKeeps, SummaryKeeps, Zenon DEF Next

\* Fairness is not needed for what is proved here.
LEMMA SpecSteps == Spec => Init /\ [][Next]_vars
BY PTL DEF Spec

\* The invariant holds: the threads know the files they hold, a trace is printed by one of
\* them, and the errors that are counted end the others (run, run_test_worker).
THEOREM RunnerIsInductive == Spec => []RunnerInv
BY InitKeeps, StepKeeps, SpecSteps, PTL

\* Nothing runs behind a verdict, and without keep_going every thread takes one file at most
\* after an error was counted, for any number of threads and files (run_test_worker).
THEOREM FailsInTime == Spec => []FailsFast
<1>1. RunnerInv => FailsFast
    <2> SUFFICES ASSUME RunnerInv PROVE FailsFast
        OBVIOUS
    <2>1. Typed /\ Over /\ Hurry
        BY Zenon DEF RunnerInv
    <2>2. verdict \in {"err", "exit"} => \A w \in DOMAIN worker : worker[w].pc = "ended"
        BY <2>1 DEF Over
    <2>3. ~config.keep_going /\ late # <<>> => Len(late) < Len(worker)
        <3> SUFFICES ASSUME ~config.keep_going, late # <<>> PROVE Len(late) < Len(worker)
            OBVIOUS
        <3>1. n_errors > 0
            BY <2>1 DEF Hurry, Typed
        <3>2. Len(late) + Cardinality(Claiming) < Len(worker)
            BY <2>1, <3>1, Zenon DEF Hurry
        <3>3. Cardinality(Claiming) \in Nat /\ Len(late) \in Nat /\ Len(worker) \in Nat
            BY <2>1, ClaimingFinite DEF Typed
        <3> QED BY <3>2, <3>3
    <2> QED BY <2>2, <2>3, Zenon DEF FailsFast
<1> QED BY <1>1, RunnerIsInductive, PTL

\* The trace of a failure is printed once, for a file that is not sound, and never in the
\* JSON modes or by a run that passes (FAILED.swap in execute_test_suite).
THEOREM TracesOnce == Spec => []TracedOnce
<1>1. RunnerInv => TracedOnce
    <2> SUFFICES ASSUME RunnerInv PROVE TracedOnce
        OBVIOUS
    <2>1. Typed /\ Placed /\ Once
        BY Zenon DEF RunnerInv
    <2>2. verdict = "pass" => traces = <<>>
        <3> SUFFICES ASSUME verdict = "pass" PROVE traces = <<>>
            OBVIOUS
        <3>1. worker = <<>>
            BY <2>1, Zenon DEF Placed
        <3>2. DOMAIN worker = {}
            BY <3>1
        <3> QED BY <2>1, <3>1, <3>2, Zenon DEF Once
    <2>3. \A i \in DOMAIN traces : ~Sound(traces[i])
        BY <2>1, SoundIsSoundIn, Zenon DEF Once
    <2> QED BY <2>1, <2>2, <2>3, Zenon DEF TracedOnce, Once
<1> QED BY <1>1, RunnerIsInductive, PTL

-----------------------------------------------------------------------------
(* The files are accounted for *)

\* A thread takes a step only before the verdict.
LEMMA BeforeVerdict ==
    ASSUME RunnerInv, NEW w, NEW r, Moves(w, r)
    PROVE  /\ verdict = "none" /\ path \in 1 .. Len(paths) /\ path > 0 /\ path \in Nat /\ queue \in Seq(FileSet)
           /\ idx \in Nat /\ idx <= Len(queue) /\ n_errors \in Nat
           /\ UNCHANGED <<paths, content, config, path, joined, thread_errors, verdict, queue>>
<1>1. w \in DOMAIN worker /\ worker[w].pc # "ended" /\ Typed /\ Placed /\ Over
    BY Zenon DEF Moves, RunnerInv
<1>2. verdict = "none" /\ worker # <<>>
    BY <1>1, MoveFacts, Zenon DEF Over
<1>3. path \in 1 .. Len(paths) /\ queue \in Seq(FileSet) /\ idx <= Len(queue)
    BY <1>1, <1>2, Zenon DEF Placed
<1>4. idx \in Nat /\ n_errors \in Nat /\ path \in Nat
    BY <1>1, Zenon DEF Typed
<1>5. UNCHANGED <<paths, content, config, path, joined, thread_errors, verdict, queue>>
    BY DEF Moves, queue
<1>6. path > 0
    BY <1>3, <1>4
<1> QED BY <1>2, <1>3, <1>4, <1>5, <1>6, Zenon

\* The next file of the queue was never claimed before.
LEMMA ClaimIsNew ==
    ASSUME NoFileTwice, Typed, Accounted, verdict = "none", path \in 1 .. Len(paths), idx < Len(queue)
    PROVE  queue[idx + 1] \notin Claimed
<1>1. idx \in Nat /\ path \in Nat /\ paths \in CommandLines /\ path > 0
    BY DEF Typed
<1>2. queue # Missing /\ queue \in Seq(FileSet) /\ \A p \in 1 .. path - 1 : paths[p] # Missing
    BY <1>1, Zenon DEF Accounted
<1>3. DOMAIN paths = 1 .. Len(paths) /\ Len(paths) \in Nat
    BY ContentTyped
<1>4. \A p, q \in DOMAIN paths : paths[p] # Missing /\ paths[q] # Missing =>
         \A i \in DOMAIN paths[p], j \in DOMAIN paths[q] : paths[p][i] = paths[q][j] => p = q /\ i = j
    BY <1>1, Zenon DEF NoFileTwice
<1>5. idx + 1 \in DOMAIN queue /\ path \in DOMAIN paths
    BY <1>1, <1>2, <1>3
<1>6. ASSUME NEW p \in 1 .. path - 1 PROVE queue[idx + 1] \notin FilesOf(p)
    <2>1. p \in DOMAIN paths /\ p # path /\ paths[p] # Missing
        BY <1>1, <1>2, <1>3
    <2> SUFFICES ASSUME NEW i \in DOMAIN paths[p], paths[p][i] = queue[idx + 1] PROVE FALSE
        BY DEF FilesOf, Range
    <2> QED BY <1>2, <1>4, <1>5, <2>1, Zenon DEF queue
<1>7. ASSUME NEW i \in 1 .. idx PROVE queue[idx + 1] # queue[i]
    <2>1. i \in DOMAIN queue /\ i # idx + 1
        BY <1>1, <1>2
    <2> QED BY <1>2, <1>4, <1>5, <2>1, Zenon DEF queue
<1> QED BY <1>6, <1>7 DEF Claimed

\* A step that neither claims nor ends a file
LEMMA AccountedSame ==
    ASSUME RunnerInv, Accounted, NEW w, NEW r, Moves(w, r), idx' = idx, ran' = ran,
           Holding(worker[w]) <=> Holding(r), Holding(r) => r.file = worker[w].file
    PROVE  Accounted'
<1>1. /\ worker' # <<>> /\ DOMAIN worker' = DOMAIN worker /\ worker'[w] = r /\ w \in DOMAIN worker
      /\ \A v \in DOMAIN worker : v # w => worker'[v] = worker[v]
    BY MoveFacts, Zenon DEF RunnerInv
<1>2. UNCHANGED <<paths, path, verdict, queue, FileSet, Claimed, RanFiles, ran, idx>>
    BY DEF Moves, queue, Claimed, FilesOf, RanFiles, FileSet
<1>3. Held' = Held
    BY <1>1, Zenon DEF Held, Holding
<1>4. \A v \in Held : worker'[v].file = worker[v].file
    BY <1>1, Zenon DEF Held
<1>5. {worker'[v].file : v \in Held'} = {worker[v].file : v \in Held}
    BY <1>3, <1>4
<1>6. RanFiles' \cup {worker'[v].file : v \in Held'} = Claimed'
    BY <1>2, <1>5, Zenon DEF Accounted
<1>7. /\ \A v \in Held' : worker'[v].file \notin RanFiles'
      /\ \A u, v \in Held' : worker'[u].file = worker'[v].file => u = v
    BY <1>2, <1>3, <1>4 DEF Accounted
<1> QED BY <1>1, <1>2, <1>6, <1>7, Zenon DEF Accounted

\* A thread claims the next file.
LEMMA AccountedClaims ==
    ASSUME NoFileTwice, RunnerInv, Accounted, NEW w, NEW r, Moves(w, r), ran' = ran,
           idx < Len(queue), idx' = idx + 1, ~Holding(worker[w]), Holding(r), r.file = queue[idx + 1]
    PROVE  Accounted'
<1>1. /\ worker' # <<>> /\ DOMAIN worker' = DOMAIN worker /\ worker'[w] = r /\ w \in DOMAIN worker
      /\ \A v \in DOMAIN worker : v # w => worker'[v] = worker[v]
    BY MoveFacts, Zenon DEF RunnerInv
<1>2. /\ verdict = "none" /\ path \in 1 .. Len(paths) /\ idx \in Nat
      /\ UNCHANGED <<paths, path, verdict, queue>>
    BY BeforeVerdict, Zenon
<1>3. UNCHANGED <<FileSet, RanFiles, ran>>
    BY DEF Moves, RanFiles, FileSet
<1>4. r.file \notin Claimed
    BY <1>2, ClaimIsNew, Zenon DEF RunnerInv
<1>5. Claimed' = Claimed \cup {r.file}
    <2>1. 1 .. idx' = (1 .. idx) \cup {idx + 1}
        BY <1>2
    <2>2. {queue[i] : i \in 1 .. idx'} = {queue[i] : i \in 1 .. idx} \cup {r.file}
        BY <2>1
    <2>3. UNION {FilesOf(p)' : p \in 1 .. path' - 1} = UNION {FilesOf(p) : p \in 1 .. path - 1}
        BY <1>2 DEF FilesOf
    <2> QED BY <1>2, <2>2, <2>3 DEF Claimed
<1>6. Held' = Held \cup {w} /\ w \notin Held
    BY <1>1, Zenon DEF Held, Holding
<1>7. \A v \in Held : worker'[v].file = worker[v].file
    BY <1>1, <1>6, Zenon DEF Held
<1>8. {worker'[v].file : v \in Held'} = {worker[v].file : v \in Held} \cup {r.file}
    BY <1>1, <1>6, <1>7
<1>9. RanFiles' \cup {worker'[v].file : v \in Held'} = Claimed'
    BY <1>3, <1>5, <1>8, Zenon DEF Accounted
<1>10. \A v \in Held : worker[v].file # r.file
    BY <1>4, Zenon DEF Accounted
<1>11. r.file \notin RanFiles
    BY <1>4, Zenon DEF Accounted
<1>12. \A v \in Held' : worker'[v].file \notin RanFiles'
    BY <1>1, <1>3, <1>6, <1>7, <1>11, Zenon DEF Accounted
<1>13. \A u, v \in Held' : worker'[u].file = worker'[v].file => u = v
    BY <1>1, <1>6, <1>7, <1>10 DEF Accounted
<1> QED BY <1>1, <1>2, <1>3, <1>9, <1>12, <1>13, Zenon DEF Accounted

\* What one more entry does to the files that ran
LEMMA RanFilesGrow ==
    ASSUME ran \in Seq(RanType), NEW x \in RanType, ran' = Append(ran, x)
    PROVE  /\ RanFiles' = RanFiles \cup {x.file} /\ Len(ran') = Len(ran) + 1 /\ Len(ran) \in Nat
           /\ DOMAIN ran' = DOMAIN ran \cup {Len(ran) + 1} /\ ran'[Len(ran) + 1] = x
           /\ \A i \in DOMAIN ran : ran'[i] = ran[i]
<1>1. /\ Len(ran') = Len(ran) + 1 /\ Len(ran) \in Nat
      /\ DOMAIN ran' = DOMAIN ran \cup {Len(ran) + 1} /\ ran'[Len(ran) + 1] = x
      /\ \A i \in DOMAIN ran : ran'[i] = ran[i]
    OBVIOUS
<1>2. RanFiles' = RanFiles \cup {x.file}
    BY <1>1 DEF RanFiles
<1> QED BY <1>1, <1>2

\* A thread ends its file.
LEMMA AccountedFinishes ==
    ASSUME RunnerInv, Accounted, NEW w, NEW r, Moves(w, r), NEW e \in Ends, Finishes(w, r, e), idx' = idx,
           Holding(worker[w]), ~Holding(r), r.file \in FileSet
    PROVE  Accounted'
<1>1. /\ worker' # <<>> /\ DOMAIN worker' = DOMAIN worker /\ worker'[w] = r /\ w \in DOMAIN worker
      /\ \A v \in DOMAIN worker : v # w => worker'[v] = worker[v]
    BY MoveFacts, Zenon DEF RunnerInv
<1>2. UNCHANGED <<paths, path, verdict, queue, FileSet, Claimed, idx>>
    BY DEF Moves, queue, Claimed, FilesOf, FileSet
<1> DEFINE x == [file |-> worker[w].file, end |-> e]
<1>3. r.file = worker[w].file /\ ran' = Append(ran, x)
    BY Zenon DEF Finishes
<1>4. x \in RanType /\ x.file = r.file
    BY <1>3 DEF RanType
<1> HIDE DEF x
<1>5. ran \in Seq(RanType)
    BY Zenon DEF RunnerInv, Typed, RanType
<1>6. RanFiles' = RanFiles \cup {r.file} /\ Len(ran') = Len(ran) + 1
    BY <1>3, <1>4, <1>5, RanFilesGrow
<1>7. w \in Held /\ Held' = Held \ {w}
    BY <1>1, Zenon DEF Held, Holding
<1>8. r.file \notin RanFiles
    BY <1>3, <1>7, Zenon DEF Accounted
<1>9. \A v \in Held' : v \in Held /\ worker'[v] = worker[v] /\ worker[v].file # r.file
    BY <1>1, <1>3, <1>7 DEF Held, Accounted
<1>10. RanFiles' \cup {worker'[v].file : v \in Held'} = Claimed'
    <2>1. {worker[v].file : v \in Held} = {worker'[v].file : v \in Held'} \cup {r.file}
        BY <1>3, <1>7, <1>9
    <2> QED BY <1>2, <1>6, <2>1 DEF Accounted
<1>11. \A v \in Held' : worker'[v].file \notin RanFiles'
    BY <1>6, <1>9 DEF Accounted
<1>12. \A u, v \in Held' : worker'[u].file = worker'[v].file => u = v
    BY <1>9, Zenon DEF Accounted
<1>13. IsFiniteSet(RanFiles') /\ Len(ran') = Cardinality(RanFiles')
    <2>1. IsFiniteSet(RanFiles) /\ Len(ran) = Cardinality(RanFiles)
        BY Zenon DEF Accounted
    <2>2. IsFiniteSet(RanFiles \cup {r.file}) /\ Cardinality(RanFiles \cup {r.file}) = Cardinality(RanFiles) + 1
        BY <1>8, <2>1, FS_AddElement
    <2> QED BY <1>6, <2>1, <2>2, Zenon
<1> QED BY <1>1, <1>2, <1>10, <1>11, <1>12, <1>13, Zenon DEF Accounted

-----------------------------------------------------------------------------
(* What ran is judged rightly, counted and explained *)

LEMMA JudgedSame ==
    ASSUME RunnerInv, Judged, NEW w, NEW r, Moves(w, r), ran' = ran
    PROVE  Judged'
<1>1. /\ worker' # <<>> /\ DOMAIN worker' = DOMAIN worker /\ w \in DOMAIN worker
      /\ \A v \in DOMAIN worker : v # w => worker'[v] = worker[v]
    BY MoveFacts, Zenon DEF RunnerInv
<1>2. worker[w].pc # "ended" /\ content' = content /\ queue' = queue
    BY DEF Moves, queue
<1>3. \A i \in DOMAIN ran' : ran'[i].end = "Panic" =>
          \E v \in DOMAIN worker' : worker'[v].pc = "ended" /\ worker'[v].end = "Panic"
    BY <1>1, <1>2, Zenon DEF Judged
<1> QED BY <1>1, <1>2, <1>3, Zenon DEF Judged

LEMMA JudgedFinishes ==
    ASSUME RunnerInv, Judged, NEW w, NEW r, Moves(w, r), NEW e \in Ends, Finishes(w, r, e),
           Deserved(r.file, e), r.file \in Range(queue), r.file \in FileSet
    PROVE  Judged'
<1>1. /\ worker' # <<>> /\ DOMAIN worker' = DOMAIN worker /\ w \in DOMAIN worker /\ worker'[w] = r
      /\ \A v \in DOMAIN worker : v # w => worker'[v] = worker[v]
    BY MoveFacts, Zenon DEF RunnerInv
<1>2. worker[w].pc # "ended" /\ content' = content /\ queue' = queue
    BY DEF Moves, queue
<1> DEFINE x == [file |-> worker[w].file, end |-> e]
<1>3. r.file = worker[w].file /\ ran' = Append(ran, x) /\ (e = "Panic" => r.pc = "ended" /\ r.end = "Panic")
    BY DEF Finishes
<1>4. x \in RanType /\ x.file = r.file /\ x.end = e
    BY <1>3 DEF RanType
<1> HIDE DEF x
<1>5. ran \in Seq(RanType)
    BY Zenon DEF RunnerInv, Typed, RanType
<1>6. \A i \in DOMAIN ran' : (i \in DOMAIN ran /\ ran'[i] = ran[i]) \/ (ran'[i].file = r.file /\ ran'[i].end = e)
    BY <1>3, <1>4, <1>5, RanFilesGrow
<1>7. \A i \in DOMAIN ran' : \/ ran'[i].end = "Ok" /\ SoundIn(content', ran'[i].file)
                             \/ ran'[i].end \in {"Err", "Panic"} /\ ~SoundIn(content', ran'[i].file)
    BY <1>2, <1>6, Zenon DEF Judged, Deserved
<1>8. \A i \in DOMAIN ran' : ran'[i].end = "Panic" =>
          \E v \in DOMAIN worker' : worker'[v].pc = "ended" /\ worker'[v].end = "Panic"
    <2> SUFFICES ASSUME NEW i \in DOMAIN ran', ran'[i].end = "Panic"
                 PROVE  \E v \in DOMAIN worker' : worker'[v].pc = "ended" /\ worker'[v].end = "Panic"
        OBVIOUS
    <2>1. CASE i \in DOMAIN ran /\ ran'[i] = ran[i]
        BY <1>1, <1>2, <2>1, Zenon DEF Judged
    <2>2. CASE ran'[i].end = e
        BY <1>1, <1>3, <2>2, Zenon
    <2> QED BY <1>6, <2>1, <2>2, Zenon
<1>9. \A i \in DOMAIN ran' : ran'[i].end = "Err" => worker' # <<>> /\ ran'[i].file \in Range(queue')
    BY <1>1, <1>2, <1>6, Zenon DEF Judged
<1> QED BY <1>7, <1>8, <1>9, Zenon DEF Judged

\* The threads that have an error to count
LEMMA UncountedFinite ==
    ASSUME Typed
    PROVE  IsFiniteSet(Uncounted) /\ Cardinality(Uncounted) \in Nat
<1>1. IsFiniteSet(DOMAIN worker)
    BY ClaimingFinite
<1>2. Uncounted \subseteq DOMAIN worker
    BY DEF Uncounted
<1> QED BY <1>1, <1>2, FS_Subset, FS_CardinalityType

LEMMA CountedSame ==
    ASSUME RunnerInv, Counted, NEW w, NEW r, Moves(w, r), ran' = ran, n_errors' = n_errors,
           Counting(worker[w]) <=> Counting(r)
    PROVE  Counted'
<1>1. /\ worker # <<>> /\ DOMAIN worker' = DOMAIN worker /\ worker'[w] = r /\ w \in DOMAIN worker
      /\ \A v \in DOMAIN worker : v # w => worker'[v] = worker[v]
    BY MoveFacts, Zenon DEF RunnerInv
<1>2. queue' = queue
    BY DEF Moves, queue
<1>3. Uncounted' = Uncounted
    BY <1>1, Zenon DEF Uncounted, Counting
<1>4. Failing' = Failing
    BY <1>2 DEF Failing
<1> QED BY <1>1, <1>3, <1>4, Zenon DEF Counted

LEMMA CountedCounts ==
    ASSUME RunnerInv, Counted, NEW w, NEW r, Moves(w, r), ran' = ran, n_errors' = n_errors + 1,
           Counting(worker[w]), ~Counting(r)
    PROVE  Counted'
<1>1. /\ worker # <<>> /\ DOMAIN worker' = DOMAIN worker /\ worker'[w] = r /\ w \in DOMAIN worker
      /\ \A v \in DOMAIN worker : v # w => worker'[v] = worker[v]
    BY MoveFacts, Zenon DEF RunnerInv
<1>2. queue' = queue
    BY DEF Moves, queue
<1>3. Uncounted' = Uncounted \ {w} /\ w \in Uncounted
    BY <1>1, Zenon DEF Uncounted, Counting
<1>4. Failing' = Failing
    BY <1>2 DEF Failing
<1>5. IsFiniteSet(Uncounted) /\ Cardinality(Uncounted) \in Nat /\ n_errors \in Nat
    BY UncountedFinite, Zenon DEF RunnerInv, Typed
<1>6. Cardinality(Uncounted \ {w}) = Cardinality(Uncounted) - 1
    BY <1>3, <1>5, FS_RemoveElement
<1>7. Cardinality(Uncounted') = Cardinality(Uncounted) - 1
    BY <1>3, <1>6, Zenon
<1>8. n_errors + Cardinality(Uncounted) = Cardinality(Failing) /\ IsFiniteSet(Failing)
    BY <1>1, Zenon DEF Counted
<1> DEFINE c == Cardinality(Uncounted)
           d == Cardinality(Uncounted')
<1>9. n_errors' + d = n_errors + c
    <2>1. d = c - 1 /\ c \in Nat /\ n_errors \in Nat
        BY <1>5, <1>7
    <2> HIDE DEF c, d
    <2> QED BY <2>1
<1> QED BY <1>4, <1>8, <1>9, Zenon DEF Counted

LEMMA CountedFinishes ==
    ASSUME RunnerInv, Accounted, Counted, NEW w, NEW r, Moves(w, r), NEW e \in Ends, Finishes(w, r, e),
           Holding(worker[w]), r.file \in Range(queue), r.file \in FileSet, n_errors' = n_errors
    PROVE  Counted'
<1>1. /\ worker # <<>> /\ DOMAIN worker' = DOMAIN worker /\ worker'[w] = r /\ w \in DOMAIN worker
      /\ \A v \in DOMAIN worker : v # w => worker'[v] = worker[v]
    BY MoveFacts, Zenon DEF RunnerInv
<1>2. queue' = queue
    BY DEF Moves, queue
<1> DEFINE x == [file |-> worker[w].file, end |-> e]
<1>3. r.file = worker[w].file /\ ran' = Append(ran, x) /\ r.end = e
    BY DEF Finishes
<1>4. x \in RanType /\ x.file = r.file /\ x.end = e
    BY <1>3 DEF RanType
<1> HIDE DEF x
<1>5. ran \in Seq(RanType)
    BY Zenon DEF RunnerInv, Typed, RanType
<1>6. /\ DOMAIN ran' = DOMAIN ran \cup {Len(ran) + 1} /\ ran'[Len(ran) + 1] = x
      /\ \A i \in DOMAIN ran : ran'[i] = ran[i]
    BY <1>3, <1>4, <1>5, RanFilesGrow
<1>7. ~Counting(worker[w]) /\ w \in Held
    BY <1>1 DEF Holding, Counting, Held
<1>8. r.file \notin RanFiles
    BY <1>3, <1>7, Zenon DEF Accounted
<1>9. \A i \in DOMAIN ran : ran[i].file # r.file
    BY <1>8 DEF RanFiles
<1>10. /\ IsFiniteSet(Uncounted) /\ Cardinality(Uncounted) \in Nat /\ n_errors \in Nat
       /\ IsFiniteSet(Failing) /\ n_errors + Cardinality(Uncounted) = Cardinality(Failing)
    BY <1>1, UncountedFinite, Zenon DEF RunnerInv, Typed, Counted
<1>11. CASE e = "Err"
    <2>1. Counting(r)
        BY <1>3, <1>11 DEF Counting, Finishes
    <2>2. Uncounted' = Uncounted \cup {w} /\ w \notin Uncounted
        BY <1>1, <1>7, <2>1, Zenon DEF Uncounted, Counting
    <2>3. Failing' = Failing \cup {r.file} /\ r.file \notin Failing
        BY <1>2, <1>4, <1>6, <1>9, <1>11 DEF Failing
    <2>4. Cardinality(Uncounted \cup {w}) = Cardinality(Uncounted) + 1
        BY <1>10, <2>2, FS_AddElement
    <2>5. Cardinality(Failing \cup {r.file}) = Cardinality(Failing) + 1 /\ IsFiniteSet(Failing \cup {r.file})
        BY <1>10, <2>3, FS_AddElement
    <2>6. Cardinality(Failing) \in Nat
        BY <1>10, FS_CardinalityType
    <2>7. Cardinality(Uncounted') = Cardinality(Uncounted) + 1 /\ Cardinality(Failing') = Cardinality(Failing) + 1
        BY <2>2, <2>3, <2>4, <2>5, Zenon
    <2> DEFINE c == Cardinality(Uncounted)
               d == Cardinality(Uncounted')
               g == Cardinality(Failing)
               h == Cardinality(Failing')
    <2>8. n_errors' + d = h
        <3>1. d = c + 1 /\ h = g + 1 /\ c \in Nat /\ g \in Nat /\ n_errors \in Nat /\ n_errors + c = g
            BY <1>10, <2>6, <2>7
        <3> HIDE DEF c, d, g, h
        <3> QED BY <3>1
    <2> QED BY <2>3, <2>5, <2>8, Zenon DEF Counted
<1>12. CASE e # "Err"
    <2>1. ~Counting(r)
        BY <1>3, <1>12 DEF Counting
    <2>2. Uncounted' = Uncounted
        BY <1>1, <1>7, <2>1, Zenon DEF Uncounted, Counting
    <2>3. Failing' = Failing
        BY <1>2, <1>4, <1>6, <1>12 DEF Failing
    <2> QED BY <1>10, <2>2, <2>3, Zenon DEF Counted
<1> QED BY <1>11, <1>12

LEMMA ExplainedMoves ==
    ASSUME RunnerInv, Explained, NEW w, NEW r, Moves(w, r), idx = Len(queue) => idx' = idx,
           \/ n_errors' = n_errors
           \/ n_errors' = n_errors + 1 /\ (config.keep_going \/ (r.pc = "ended" /\ r.end = "Err")),
           r.pc = "ended" /\ r.end = "Ok" => idx' = Len(queue) \/ (~config.keep_going /\ n_errors' > 0)
    PROVE  Explained'
<1>1. /\ worker # <<>> /\ worker' # <<>> /\ DOMAIN worker' = DOMAIN worker /\ worker'[w] = r /\ w \in DOMAIN worker
      /\ \A v \in DOMAIN worker : v # w => worker'[v] = worker[v]
    BY MoveFacts, Zenon DEF RunnerInv
<1>2. /\ verdict = "none" /\ n_errors \in Nat
      /\ UNCHANGED <<config, joined, thread_errors, verdict, queue>>
    BY BeforeVerdict, Zenon
<1>3. worker[w].pc # "ended" /\ Over
    BY Zenon DEF Moves, RunnerInv
<1>4. n_errors > 0 => n_errors' > 0
    BY <1>2
<1>5. \A v \in DOMAIN worker : worker[v].pc = "ended" => worker'[v] = worker[v]
    BY <1>1, <1>3, Zenon
<1>6. \A v \in DOMAIN worker' : worker'[v].pc = "ended" /\ worker'[v].end = "Ok" =>
          idx' = Len(queue') \/ (~config'.keep_going /\ n_errors' > 0)
    <2> SUFFICES ASSUME NEW v \in DOMAIN worker', worker'[v].pc = "ended", worker'[v].end = "Ok"
                 PROVE  idx' = Len(queue) \/ (~config.keep_going /\ n_errors' > 0)
        BY <1>2, Zenon
    <2>1. CASE v = w
        BY <1>1, <2>1, Zenon
    <2>2. CASE v # w
        <3>1. idx = Len(queue) \/ (~config.keep_going /\ n_errors > 0)
            BY <1>1, <2>2, Zenon DEF Explained
        <3> QED BY <1>4, <3>1, Zenon
    <2> QED BY <2>1, <2>2
<1>7. \A e : Quit(e) => \E v \in DOMAIN worker' : worker'[v].pc = "ended" /\ worker'[v].end \in e
    BY <1>1, <1>5, Zenon DEF Quit
<1>8. ~config'.keep_going /\ n_errors' > 0 => Quit({"Err"})'
    <2> SUFFICES ASSUME ~config.keep_going, n_errors' > 0
                 PROVE  \E v \in DOMAIN worker' : worker'[v].pc = "ended" /\ worker'[v].end \in {"Err"}
        BY <1>2, Zenon DEF Quit
    <2>1. CASE n_errors' = n_errors
        <3>1. n_errors > 0
            BY <2>1
        <3> QED BY <1>1, <1>7, <3>1, Zenon DEF Explained
    <2>2. CASE r.pc = "ended" /\ r.end = "Err"
        BY <1>1, <2>2, Zenon
    <2> QED BY <2>1, <2>2, Zenon
<1>9. thread_errors' = <<>> => \A v \in DOMAIN worker' : v <= joined' => worker'[v].end = "Ok"
    BY <1>1, <1>2, <1>3, <1>5, Zenon DEF Explained, Over
<1>10. thread_errors' # <<>> => Quit({"Err", "Panic"})'
    <2> SUFFICES ASSUME thread_errors # <<>>
                 PROVE  \E v \in DOMAIN worker' : worker'[v].pc = "ended" /\ worker'[v].end \in {"Err", "Panic"}
        BY <1>2, Zenon DEF Quit
    <2> QED BY <1>7, Zenon DEF Explained
<1>11. verdict' # "err" /\ verdict' # "exit" /\ verdict' # "pass"
    BY <1>2
<1>12. path' # 0
    <2>1. path > 0 /\ path' = path /\ path \in Nat
        BY BeforeVerdict, Zenon
    <2> QED BY <2>1
<1> QED BY <1>1, <1>6, <1>8, <1>9, <1>10, <1>11, <1>12, Zenon DEF Explained

-----------------------------------------------------------------------------
(* The verdict *)

\* A thread ends its suite as the file deserves.
LEMMA EarnedFinishes ==
    ASSUME RunnerInv, Earned, NEW w, NEW r, Moves(w, r), NEW e \in Ends, Finishes(w, r, e), Deserved(r.file, e),
           Holding(worker[w]), r.file \in Range(queue), idx' = idx, n_errors' = n_errors
    PROVE  Earned'
<1>1. Accounted /\ Judged /\ Counted /\ Explained
    BY Zenon DEF Earned
<1>2. r.file \in FileSet
    <2>1. queue \in Seq(FileSet)
        BY BeforeVerdict, Zenon
    <2> QED BY <2>1 DEF Range
<1>3. ~Holding(r)
    BY FinishesKnows, Zenon
<1>4. ~(r.pc = "ended" /\ r.end = "Ok")
    BY DEF Finishes
<1>5. Accounted'
    BY <1>1, <1>2, <1>3, AccountedFinishes, Zenon
<1>6. Judged'
    BY <1>1, <1>2, JudgedFinishes, Zenon
<1>7. Counted'
    BY <1>1, <1>2, CountedFinishes, Zenon
<1>8. Explained'
    BY <1>1, <1>4, ExplainedMoves, Zenon
<1> QED BY <1>5, <1>6, <1>7, <1>8, Zenon DEF Earned

\* A thread goes on without an end.
LEMMA EarnedSame ==
    ASSUME RunnerInv, Earned, NEW w, NEW r, Moves(w, r), idx' = idx, ran' = ran, n_errors' = n_errors,
           Holding(worker[w]) <=> Holding(r), Holding(r) => r.file = worker[w].file,
           Counting(worker[w]) <=> Counting(r),
           r.pc = "ended" /\ r.end = "Ok" => idx' = Len(queue) \/ (~config.keep_going /\ n_errors' > 0)
    PROVE  Earned'
<1>1. Accounted /\ Judged /\ Counted /\ Explained
    BY Zenon DEF Earned
<1>2. Accounted'
    BY <1>1, AccountedSame, Zenon
<1>3. Judged'
    BY <1>1, JudgedSame, Zenon
<1>4. Counted'
    BY <1>1, CountedSame, Zenon
<1>5. Explained'
    BY <1>1, ExplainedMoves, Zenon
<1> QED BY <1>2, <1>3, <1>4, <1>5, Zenon DEF Earned

LEMMA LoadErrorsEarns ==
    ASSUME RunnerInv, Earned, NEW w \in DOMAIN worker, LoadErrors(w)
    PROVE  Earned'
<1>1. PICK r : /\ Moves(w, r) /\ worker[w].pc = "load"
               /\ UNCHANGED <<failed, idx, n_errors, ran, late, traces>>
               /\ \/ r.pc = "ended" /\ r.end = "Ok" /\ ~config.keep_going /\ n_errors > 0
                  \/ r.pc = "claim" /\ (config.keep_going \/ n_errors = 0)
    BY ThreadFacts, LoadErrorsMoves, Zenon
<1>2. ~Holding(worker[w]) /\ ~Holding(r) /\ ~Counting(worker[w]) /\ ~Counting(r)
    BY <1>1 DEF Holding, Counting
<1>3. r.pc = "ended" => ~config.keep_going /\ n_errors' > 0
    BY <1>1
<1> QED BY <1>1, <1>2, <1>3, EarnedSame, Zenon

LEMMA NextTestEarns ==
    ASSUME NoFileTwice, RunnerInv, Earned, NEW w \in DOMAIN worker, NextTest(w)
    PROVE  Earned'
<1>1. PICK r : /\ Moves(w, r) /\ worker[w].pc = "claim"
               /\ UNCHANGED <<failed, n_errors, ran, traces>>
               /\ \/ /\ idx < Len(queue) /\ idx' = idx + 1 /\ queue[idx + 1] \in FileSet
                     /\ r.pc = "open" /\ r.file = queue[idx + 1] /\ r.pos = 0
                     /\ \/ n_errors > 0 /\ late' = Append(late, queue[idx + 1])
                        \/ n_errors = 0 /\ late' = late
                  \/ /\ ~(idx < Len(queue)) /\ idx' = idx /\ late' = late
                     /\ r.pc = "ended" /\ r.end = "Ok"
    BY ThreadFacts, NextTestMoves, Zenon
<1>2. idx \in Nat /\ idx <= Len(queue) /\ Len(queue) \in Nat
    BY ThreadFacts, Zenon
<1>3. ~Holding(worker[w]) /\ ~Counting(worker[w]) /\ ~Counting(r)
    BY <1>1 DEF Holding, Counting
<1>4. CASE idx < Len(queue) /\ idx' = idx + 1 /\ r.pc = "open" /\ r.file = queue[idx + 1]
    <2>1. Holding(r) /\ r.pc # "ended"
        BY <1>4 DEF Holding
    <2>2. Accounted /\ Judged /\ Counted /\ Explained
        BY Zenon DEF Earned
    <2>3. Accounted'
        BY <1>1, <1>3, <1>4, <2>1, <2>2, AccountedClaims, Zenon
    <2>4. Judged'
        BY <1>1, <2>2, JudgedSame, Zenon
    <2>5. Counted'
        BY <1>1, <1>3, <2>2, CountedSame, Zenon
    <2>6. idx # Len(queue)
        BY <1>2, <1>4
    <2>7. Explained'
        BY <1>1, <2>1, <2>2, <2>6, ExplainedMoves, Zenon
    <2> QED BY <2>3, <2>4, <2>5, <2>7, Zenon DEF Earned
<1>5. CASE ~(idx < Len(queue)) /\ idx' = idx /\ r.pc = "ended" /\ r.end = "Ok"
    <2>1. ~Holding(r) /\ idx' = Len(queue)
        BY <1>2, <1>5 DEF Holding
    <2> QED BY <1>1, <1>3, <1>5, <2>1, EarnedSame, Zenon
<1> QED BY <1>1, <1>4, <1>5, Zenon

LEMMA OpenSuiteEarns ==
    ASSUME RunnerInv, Earned, NEW w \in DOMAIN worker, OpenSuite(w)
    PROVE  Earned'
<1>1. Typed /\ Placed /\ Knows(content, Range(queue), worker[w])
    BY ThreadFacts, Zenon
<1>2. PICK r : /\ Moves(w, r) /\ worker[w].pc = "open" /\ r.file = worker[w].file
               /\ UNCHANGED <<failed, idx, n_errors, late, traces>>
               /\ \/ /\ r.pc = "test" /\ r.pos = 0 /\ content[r.file].kind = "suite" /\ ran' = ran
                  \/ \E e \in Ends : Finishes(w, r, e) /\ Deserved(r.file, e)
    BY <1>1, OpenSuiteMoves, Zenon
<1>3. Holding(worker[w]) /\ ~Counting(worker[w]) /\ r.file \in Range(queue)
    BY <1>1, <1>2 DEF Holding, Counting, Knows
<1>4. CASE r.pc = "test" /\ ran' = ran
    <2>1. Holding(r) /\ ~Counting(r) /\ r.pc # "ended"
        BY <1>4 DEF Holding, Counting
    <2> QED BY <1>2, <1>3, <1>4, <2>1, EarnedSame, Zenon
<1>5. ASSUME NEW e \in Ends, Finishes(w, r, e), Deserved(r.file, e) PROVE Earned'
    BY <1>2, <1>3, <1>5, EarnedFinishes, Zenon
<1> QED BY <1>2, <1>4, <1>5, Zenon

LEMMA ExecuteTestEarns ==
    ASSUME RunnerInv, Earned, NEW w \in DOMAIN worker, ExecuteTest(w)
    PROVE  Earned'
<1>1. Typed /\ Placed /\ Knows(content, Range(queue), worker[w])
    BY ThreadFacts, Zenon
<1>2. PICK r : /\ Moves(w, r) /\ worker[w].pc = "test" /\ r.file = worker[w].file
               /\ UNCHANGED <<idx, n_errors, late, traces>>
               /\ \/ /\ r.pc = "test" /\ r.pos = worker[w].pos + 1 /\ UNCHANGED <<ran, failed>>
                     /\ Holds(content[r.file].tests[r.pos])
                  \/ /\ r.pc = "trace" /\ ran' = ran /\ ~failed /\ failed' = TRUE
                     /\ ~config.print_outcome /\ ~SoundIn(content, r.file)
                  \/ /\ failed' = failed \/ failed' = TRUE
                     /\ \E e \in Ends : Finishes(w, r, e) /\ Deserved(r.file, e)
    BY <1>1, ExecuteTestMoves, Zenon
<1>3. Holding(worker[w]) /\ ~Counting(worker[w]) /\ r.file \in Range(queue)
    BY <1>1, <1>2 DEF Holding, Counting, Knows
<1>4. CASE r.pc \in {"test", "trace"} /\ ran' = ran
    <2>1. Holding(r) /\ ~Counting(r) /\ r.pc # "ended"
        BY <1>4 DEF Holding, Counting
    <2> QED BY <1>2, <1>3, <1>4, <2>1, EarnedSame, Zenon
<1>5. ASSUME NEW e \in Ends, Finishes(w, r, e), Deserved(r.file, e) PROVE Earned'
    BY <1>2, <1>3, <1>5, EarnedFinishes, Zenon
<1> QED BY <1>2, <1>4, <1>5, Zenon

LEMMA DebugFailedTestEarns ==
    ASSUME RunnerInv, Earned, NEW w \in DOMAIN worker, DebugFailedTest(w)
    PROVE  Earned'
<1>1. Typed /\ Placed /\ Knows(content, Range(queue), worker[w])
    BY ThreadFacts, Zenon
<1>2. PICK r : /\ Moves(w, r) /\ worker[w].pc = "trace" /\ r.file = worker[w].file
               /\ UNCHANGED <<failed, idx, n_errors, late>>
               /\ traces' = Append(traces, r.file) /\ Finishes(w, r, "Err")
    BY <1>1, DebugFailedTestMoves, Zenon
<1>3. Holding(worker[w]) /\ r.file \in Range(queue) /\ ~SoundIn(content, r.file)
    BY <1>1, <1>2 DEF Holding, Knows
<1>4. "Err" \in Ends /\ Deserved(r.file, "Err")
    BY <1>3 DEF Ends, Deserved
<1> QED BY <1>2, <1>3, <1>4, EarnedFinishes, Zenon

LEMMA CountResultEarns ==
    ASSUME RunnerInv, Earned, NEW w \in DOMAIN worker, CountResult(w)
    PROVE  Earned'
<1>1. PICK r : /\ Moves(w, r) /\ worker[w].pc = "count" /\ r.file = worker[w].file
               /\ UNCHANGED <<failed, idx, ran, late, traces>>
               /\ \/ /\ worker[w].end = "Err" /\ n_errors' = n_errors + 1 /\ ~config.keep_going
                     /\ r.pc = "ended" /\ r.end = "Err"
                  \/ /\ worker[w].end = "Err" /\ n_errors' = n_errors + 1 /\ config.keep_going
                     /\ r.pc = "load"
                  \/ worker[w].end # "Err" /\ n_errors' = n_errors /\ r.pc = "load"
    BY ThreadFacts, CountResultMoves, Zenon
<1>2. ~Holding(worker[w]) /\ ~Holding(r) /\ ~Counting(r) /\ ~(r.pc = "ended" /\ r.end = "Ok")
    BY <1>1 DEF Holding, Counting
<1>3. CASE worker[w].end = "Err" /\ n_errors' = n_errors + 1
    <2>1. Counting(worker[w])
        BY <1>1, <1>3 DEF Counting
    <2>2. Accounted /\ Judged /\ Counted /\ Explained
        BY Zenon DEF Earned
    <2>3. Accounted'
        BY <1>1, <1>2, <2>2, AccountedSame, Zenon
    <2>4. Judged'
        BY <1>1, <2>2, JudgedSame, Zenon
    <2>5. Counted'
        BY <1>1, <1>2, <1>3, <2>1, <2>2, CountedCounts, Zenon
    <2>6. Explained'
        <3>1. config.keep_going \/ (r.pc = "ended" /\ r.end = "Err")
            BY <1>1, <1>3, Zenon
        <3> QED BY <1>1, <1>2, <1>3, <2>2, <3>1, ExplainedMoves, Zenon
    <2> QED BY <2>3, <2>4, <2>5, <2>6, Zenon DEF Earned
<1>4. CASE worker[w].end # "Err" /\ n_errors' = n_errors
    <2>1. ~Counting(worker[w])
        BY <1>4 DEF Counting
    <2> QED BY <1>1, <1>2, <1>4, <2>1, EarnedSame, Zenon
<1> QED BY <1>1, <1>3, <1>4, Zenon

\* Between two paths nothing is left of an error.
LEMMA NextPathEarns ==
    ASSUME RunnerInv, Earned, NextPath
    PROVE  Earned'
<1>1. Typed /\ Placed /\ Accounted /\ Judged /\ Counted /\ Explained
    BY Zenon DEF RunnerInv, Earned
<1>2. /\ verdict = "none" /\ worker = <<>> /\ path' = path + 1 /\ path <= Len(paths)
      /\ UNCHANGED <<paths, content, config, failed, ran, late, traces>>
      /\ idx' = 0 /\ n_errors' = 0 /\ joined' = 0 /\ thread_errors' = <<>>
      /\ \/ verdict' = "pass" /\ path' = Len(paths) + 1 /\ worker' = <<>>
         \/ verdict' = "err" /\ path' \in 1 .. Len(paths) /\ worker' = <<>> /\ queue' \in {Missing, <<>>}
         \/ /\ verdict' = "none" /\ path' \in 1 .. Len(paths) /\ queue' \in Seq(FileSet) /\ queue' # Missing
            /\ \E k \in Nat : k > 0 /\ worker' = Started(k)
    BY <1>1, NextPathMoves, Zenon
<1>3. path \in Nat /\ idx \in Nat /\ DOMAIN worker = {} /\ FileSet' = FileSet /\ RanFiles' = RanFiles
    BY <1>1, <1>2 DEF Typed, FileSet, RanFiles
<1>4. /\ \A w \in DOMAIN worker' : worker'[w] = Fresh
      /\ verdict' = "none" => worker' # <<>>
    <2>1. CASE worker' = <<>> /\ verdict' # "none"
        BY <2>1
    <2>2. CASE \E k \in Nat : k > 0 /\ worker' = Started(k)
        BY <2>2, StartedFacts, Zenon
    <2> QED BY <1>2, <2>1, <2>2
<1>5. Fresh.pc = "load"
    BY DEF Fresh
<1>6. \A w \in DOMAIN worker' : worker'[w].pc = "load"
    BY <1>4, <1>5, Zenon
<1>7. Held' = {} /\ Held = {} /\ Uncounted' = {}
    BY <1>3, <1>6 DEF Held, Holding, Uncounted, Counting
<1>8. \A i \in DOMAIN ran : ran[i].end # "Panic" /\ ran[i].end # "Err"
    BY <1>1, <1>2, <1>3 DEF Judged
<1>9. Claimed' = Claimed
    <2>1. {queue'[i] : i \in 1 .. idx'} = {}
        BY <1>2
    <2>2. \A p : FilesOf(p)' = FilesOf(p)
        BY <1>2 DEF FilesOf
    <2>3. Claimed' = UNION {FilesOf(p) : p \in 1 .. path}
        BY <1>2, <1>3, <2>1, <2>2 DEF Claimed
    <2>4. CASE path = 0
        <3>1. idx = 0
            BY <1>1, <2>4 DEF Explained
        <3> QED BY <2>3, <2>4, <3>1 DEF Claimed
    <2>5. CASE path > 0
        <3>1. queue \in Seq(FileSet) /\ idx = Len(queue)
            BY <1>1, <1>2, <2>5, Zenon DEF Accounted
        <3>2. {queue[i] : i \in 1 .. idx} = FilesOf(path)
            BY <3>1 DEF FilesOf, Range, queue
        <3>3. 1 .. path = (1 .. path - 1) \cup {path}
            BY <1>3, <2>5
        <3>4. UNION {FilesOf(p) : p \in 1 .. path} = (UNION {FilesOf(p) : p \in 1 .. path - 1}) \cup FilesOf(path)
            BY <3>3
        <3> QED BY <2>3, <3>2, <3>4, Zenon DEF Claimed
    <2> QED BY <1>3, <2>4, <2>5
<1>10. Accounted'
    <2>1. RanFiles = Claimed
        BY <1>1, <1>7 DEF Accounted
    <2>2. RanFiles' \cup {worker'[w].file : w \in Held'} = Claimed'
        BY <1>3, <1>7, <1>9, <2>1
    <2>3. \A p \in 1 .. path' - 1 : paths'[p] # Missing
        <3>1. \A p \in 1 .. path' - 1 : p \in 1 .. path - 1 \/ (p = path /\ path > 0)
            BY <1>2, <1>3
        <3> QED BY <1>1, <1>2, <3>1, Zenon DEF Accounted, queue
    <2>4. verdict' = "none" => queue' # Missing /\ queue' \in Seq(FileSet')
        BY <1>2, <1>3
    <2> QED BY <1>1, <1>2, <1>3, <1>4, <1>7, <2>2, <2>3, <2>4 DEF Accounted
<1>11. Judged'
    BY <1>1, <1>2, <1>8 DEF Judged
<1>12. Counted'
    <2>1. Failing' = {}
        BY <1>2, <1>8 DEF Failing
    <2>2. IsFiniteSet({}) /\ Cardinality({}) = 0
        BY FS_EmptySet
    <2>3. n_errors' + Cardinality({}) = Cardinality({})
        BY <1>2, <2>2
    <2> QED BY <1>7, <2>1, <2>2, <2>3, Zenon DEF Counted
<1>13. Explained'
    <2>1. \A w \in DOMAIN worker' : worker'[w].pc # "ended" /\ ~(w <= joined')
        <3>1. \A w \in DOMAIN worker' : w \in Nat /\ w > 0
            <4>1. CASE worker' = <<>>
                BY <4>1
            <4>2. CASE \E k \in Nat : k > 0 /\ worker' = Started(k)
                BY <4>2 DEF Started
            <4> QED BY <1>2, <4>1, <4>2
        <3> QED BY <1>2, <1>6, <3>1
    <2>2. ~(n_errors' > 0) /\ thread_errors' = <<>>
        BY <1>2
    <2>3. /\ verdict' = "err" => queue' \in {Missing, <<>>}
          /\ verdict' # "exit"
          /\ verdict' = "pass" => path' = Len(paths') + 1 /\ worker' = <<>> /\ idx' = 0
          /\ path' # 0
        BY <1>2, <1>3
    <2> QED BY <2>1, <2>2, <2>3, Zenon DEF Explained
<1> QED BY <1>10, <1>11, <1>12, <1>13, Zenon DEF Earned

LEMMA JoinEarns ==
    ASSUME RunnerInv, Earned, Join
    PROVE  Earned'
<1>1. Typed /\ Placed /\ Accounted /\ Judged /\ Counted /\ Explained
    BY Zenon DEF RunnerInv, Earned
<1>2. /\ UNCHANGED <<paths, content, config, path, verdict, failed, idx, n_errors, worker, ran, late, traces>>
      /\ verdict = "none" /\ joined' = joined + 1 /\ joined' \in DOMAIN worker /\ worker[joined'].pc = "ended"
      /\ \/ worker[joined'].end = "Ok" /\ thread_errors' = thread_errors
         \/ worker[joined'].end # "Ok" /\ thread_errors' = Append(thread_errors, worker[joined'].end)
    BY <1>1, JoinMoves, Zenon
<1>3. UNCHANGED <<FileSet, queue, Held, Claimed, RanFiles, Failing, Uncounted>>
    BY <1>2 DEF FileSet, queue, Held, Claimed, RanFiles, Failing, Uncounted, FilesOf, Holding, Counting
<1>4. Accounted' /\ Judged' /\ Counted'
    BY <1>1, <1>2, <1>3, Zenon DEF Accounted, Judged, Counted
<1>5. worker # <<>> /\ \A w \in DOMAIN worker : w \in Nat
    BY <1>1, <1>2 DEF Typed
<1>6. joined \in Nat /\ thread_errors \in Seq(Ends) /\ worker[joined'].end \in Ends
    <2>1. joined' \in DOMAIN worker
        BY <1>2, Zenon
    <2>2. worker[joined'] \in WorkerType
        BY <2>1, ThreadFacts, Zenon
    <2>3. worker[joined'].end \in Ends
        BY <2>2 DEF WorkerType
    <2> QED BY <1>1, <2>3, Zenon DEF Typed
<1>7. /\ thread_errors' = <<>> => \A w \in DOMAIN worker : w <= joined' => worker[w].end = "Ok"
      /\ thread_errors' # <<>> => Quit({"Err", "Panic"})
    <2>1. CASE worker[joined'].end = "Ok" /\ thread_errors' = thread_errors
        <3>1. \A w \in DOMAIN worker : w <= joined' => w <= joined \/ w = joined'
            BY <1>2, <1>5, <1>6
        <3> QED BY <1>1, <2>1, <3>1, Zenon DEF Explained
    <2>2. CASE worker[joined'].end # "Ok" /\ thread_errors' = Append(thread_errors, worker[joined'].end)
        <3>1. thread_errors' # <<>>
            BY <1>6, <2>2
        <3>2. Knows(content, Range(queue), worker[joined'])
            BY <1>1, <1>2, Zenon DEF Placed
        <3>3. worker[joined'].end \in {"Err", "Panic"}
            BY <1>2, <2>2, <3>2, Zenon DEF Knows
        <3> QED BY <1>2, <3>1, <3>3, Zenon DEF Quit
    <2> QED BY <1>2, <2>1, <2>2, Zenon
<1>8. Explained'
    <2>1. Quit({"Err"})' <=> Quit({"Err"})
        BY <1>2, Zenon DEF Quit
    <2>2. Quit({"Err", "Panic"})' <=> Quit({"Err", "Panic"})
        BY <1>2, Zenon DEF Quit
    <2>3. verdict' # "err" /\ verdict' # "exit" /\ verdict' # "pass"
        BY <1>2
    <2> QED BY <1>1, <1>2, <1>3, <1>5, <1>7, <2>1, <2>2, <2>3, Zenon DEF Explained
<1> QED BY <1>4, <1>8, Zenon DEF Earned

\* When all threads are joined without an error, the whole queue ran and no thread panicked.
LEMMA AllJoined ==
    ASSUME RunnerInv, Earned, worker # <<>>, joined = Len(worker), thread_errors = <<>>
    PROVE  /\ \A w \in DOMAIN worker : worker[w].pc = "ended" /\ worker[w].end = "Ok"
           /\ idx = Len(queue) /\ Held = {} /\ Uncounted = {}
<1>1. Typed /\ Placed /\ Over /\ Explained
    BY Zenon DEF RunnerInv, Earned
<1>2. \A w \in DOMAIN worker : w <= joined
    BY <1>1 DEF Typed
<1>3. \A w \in DOMAIN worker : worker[w].pc = "ended" /\ worker[w].end = "Ok"
    BY <1>1, <1>2, Zenon DEF Over, Explained
<1>4. 1 \in DOMAIN worker
    BY <1>1 DEF Typed
<1>5. ~Quit({"Err"})
    BY <1>3 DEF Quit
<1>6. idx = Len(queue)
    BY <1>1, <1>3, <1>4, <1>5, Zenon DEF Explained
<1>7. Held = {} /\ Uncounted = {}
    BY <1>3 DEF Held, Uncounted, Holding, Counting
<1> QED BY <1>3, <1>6, <1>7, Zenon

LEMMA SummaryEarns ==
    ASSUME RunnerInv, Earned, Summary
    PROVE  Earned'
<1>1. Typed /\ Placed /\ Over /\ Accounted /\ Judged /\ Counted /\ Explained
    BY Zenon DEF RunnerInv, Earned
<1>2. /\ UNCHANGED <<paths, content, config, path, joined, thread_errors, failed, idx, n_errors, ran, late, traces>>
      /\ verdict = "none" /\ joined = Len(worker) /\ worker # <<>> /\ path > 0
      /\ \/ verdict' = "err" /\ thread_errors # <<>> /\ worker' = worker
         \/ verdict' = "none" /\ thread_errors = <<>> /\ n_errors = 0 /\ worker' = <<>>
         \/ verdict' = "exit" /\ thread_errors = <<>> /\ n_errors > 0 /\ worker' = worker
    BY <1>1, SummaryMoves, Zenon
<1>3. UNCHANGED <<FileSet, queue, Claimed, RanFiles, Failing>>
    BY <1>2 DEF FileSet, queue, Claimed, RanFiles, Failing, FilesOf
<1>4. CASE worker' = worker /\ verdict' \in {"err", "exit"}
    <2>1. UNCHANGED <<Held, Uncounted>> /\ verdict' # "none" /\ verdict' # "pass"
        BY <1>4 DEF Held, Uncounted, Holding, Counting
    <2>2. Accounted' /\ Judged' /\ Counted'
        BY <1>1, <1>2, <1>3, <1>4, <2>1, Zenon DEF Accounted, Judged, Counted
    <2>3. Quit({"Err"})' <=> Quit({"Err"})
        BY <1>4, Zenon DEF Quit
    <2>4. Quit({"Err", "Panic"})' <=> Quit({"Err", "Panic"})
        BY <1>4, Zenon DEF Quit
    <2>5. /\ verdict' = "err" => Quit({"Err", "Panic"})
          /\ verdict' = "exit" => thread_errors = <<>> /\ n_errors > 0
        <3>1. verdict' = "err" => thread_errors # <<>>
            BY <1>2
        <3>2. verdict' = "exit" => thread_errors = <<>> /\ n_errors > 0
            BY <1>2
        <3> QED BY <1>1, <3>1, <3>2, Zenon DEF Explained
    <2>6. Explained'
        BY <1>1, <1>2, <1>3, <1>4, <2>1, <2>3, <2>4, <2>5, Zenon DEF Explained
    <2> QED BY <2>2, <2>6, Zenon DEF Earned
<1>5. CASE verdict' = "none" /\ thread_errors = <<>> /\ n_errors = 0 /\ worker' = <<>>
    <2>1. /\ \A w \in DOMAIN worker : worker[w].pc = "ended" /\ worker[w].end = "Ok"
          /\ idx = Len(queue) /\ Held = {} /\ Uncounted = {}
        BY <1>2, <1>5, AllJoined, Zenon
    <2>2. DOMAIN worker' = {} /\ Held' = {}
        BY <1>5 DEF Held
    <2>3. Accounted'
        BY <1>1, <1>2, <1>3, <1>5, <2>1, <2>2, Zenon DEF Accounted
    <2>4. Failing = {}
        <3>1. Cardinality(Uncounted) = 0
            BY <2>1, FS_EmptySet
        <3>2. IsFiniteSet(Failing) /\ n_errors + Cardinality(Uncounted) = Cardinality(Failing)
            BY <1>1, <1>2, Zenon DEF Counted
        <3>3. Cardinality(Failing) = 0
            BY <1>5, <3>1, <3>2
        <3> QED BY <3>2, <3>3, FS_EmptySet
    <2>5. \A i \in DOMAIN ran : ran[i].end # "Panic" /\ ran[i].end # "Err"
        <3> SUFFICES ASSUME NEW i \in DOMAIN ran PROVE ran[i].end # "Panic" /\ ran[i].end # "Err"
            OBVIOUS
        <3>1. ran[i].end = "Err" => ran[i].file \in Failing
            BY <1>1, Zenon DEF Judged, Failing
        <3>2. ran[i].end # "Panic"
            BY <1>1, <2>1 DEF Judged
        <3> QED BY <2>4, <3>1, <3>2
    <2>6. Judged'
        BY <1>1, <1>2, <2>5, Zenon DEF Judged
    <2>7. Counted'
        BY <1>5, Zenon DEF Counted
    <2>8. Explained'
        <3>1. ~(n_errors' > 0) /\ path' # 0 /\ verdict' # "err" /\ verdict' # "exit" /\ verdict' # "pass"
            BY <1>2, <1>5
        <3> QED BY <1>1, <1>2, <1>5, <2>2, <3>1, Zenon DEF Explained
    <2> QED BY <2>3, <2>6, <2>7, <2>8, Zenon DEF Earned
<1> QED BY <1>2, <1>4, <1>5, Zenon

LEMMA InitEarns == Init => Earned
<1> SUFFICES ASSUME Init PROVE Earned
    OBVIOUS
<1>1. /\ path = 0 /\ idx = 0 /\ n_errors = 0 /\ worker = <<>>
      /\ thread_errors = <<>> /\ joined = 0 /\ verdict = "none" /\ ran = <<>>
    BY Zenon DEF Init
<1>2. DOMAIN worker = {} /\ DOMAIN ran = {} /\ Held = {} /\ RanFiles = {} /\ Len(ran) = 0
    BY <1>1 DEF Held, RanFiles
<1>3. Claimed = {}
    BY <1>1 DEF Claimed
<1>4. IsFiniteSet({}) /\ Cardinality({}) = 0
    BY FS_EmptySet
<1>5. Accounted
    <2>1. RanFiles \cup {worker[w].file : w \in Held} = Claimed
        BY <1>2, <1>3
    <2>2. ~(path > 0) /\ \A p : p \notin 1 .. path - 1
        BY <1>1
    <2>3. IsFiniteSet(RanFiles) /\ Len(ran) = Cardinality(RanFiles)
        BY <1>2, <1>4
    <2> QED BY <1>2, <2>1, <2>2, <2>3, Zenon DEF Accounted
<1>6. Judged
    BY <1>2, Zenon DEF Judged
<1>7. Counted
    BY <1>1, Zenon DEF Counted
<1>8. Explained
    <2>1. verdict # "err" /\ verdict # "exit" /\ verdict # "pass"
        BY <1>1
    <2> QED BY <1>1, <1>2, <2>1, Zenon DEF Explained
<1> QED BY <1>5, <1>6, <1>7, <1>8, Zenon DEF Earned

LEMMA StepEarns == NoFileTwice /\ RunnerInv /\ Earned /\ [Next]_vars => Earned'
<1> SUFFICES ASSUME NoFileTwice, RunnerInv, Earned, [Next]_vars PROVE Earned'
    OBVIOUS
<1>1. ASSUME NEW w \in DOMAIN worker, Worker(w) PROVE Earned'
    BY <1>1, LoadErrorsEarns, NextTestEarns, OpenSuiteEarns, ExecuteTestEarns, DebugFailedTestEarns,
       CountResultEarns, Zenon DEF Worker
<1>2. CASE UNCHANGED vars
    <2>1. UNCHANGED <<paths, content, config, path, joined, thread_errors, verdict, failed, idx, n_errors, worker,
                      ran, late, traces>>
        BY <1>2 DEF vars, input, main, shared, history
    <2>2. UNCHANGED <<FileSet, queue, Held, Claimed, RanFiles, Failing, Uncounted>>
        BY <2>1 DEF FileSet, queue, Held, Claimed, RanFiles, Failing, Uncounted, FilesOf, Holding, Counting
    <2>3. Accounted /\ Judged /\ Counted /\ Explained
        BY Zenon DEF Earned
    <2>4. Accounted' /\ Judged' /\ Counted'
        BY <2>1, <2>2, <2>3, Zenon DEF Accounted, Judged, Counted
    <2>5. Explained'
        BY <2>1, <2>2, <2>3, Zenon DEF Explained, Quit
    <2> QED BY <2>4, <2>5, Zenon DEF Earned
<1> QED BY <1>1, <1>2, NextPathEarns, JoinEarns, SummaryEarns, Zenon DEF Next

\* A run that passes has run every file of every path, once, and all of them are sound.
LEMMA PassIsEarned ==
    ASSUME RunnerInv, Earned, verdict = "pass"
    PROVE  /\ \A p \in DOMAIN paths : \A f \in FilesOf(p) : Sound(f)
           /\ {ran[i].file : i \in DOMAIN ran} = UNION {FilesOf(p) : p \in DOMAIN paths}
           /\ Len(ran) = Cardinality(UNION {FilesOf(p) : p \in DOMAIN paths})
<1>1. Typed /\ Accounted /\ Judged /\ Explained
    BY Zenon DEF RunnerInv, Earned
<1>2. path = Len(paths) + 1 /\ worker = <<>> /\ idx = 0
    BY <1>1, Zenon DEF Explained
<1>3. DOMAIN worker = {} /\ Held = {}
    BY <1>2 DEF Held
<1>4. Len(paths) \in Nat /\ DOMAIN paths = 1 .. Len(paths)
    BY <1>1, ContentTyped
<1>5. 1 .. path - 1 = DOMAIN paths
    BY <1>2, <1>4
<1>6. Claimed = UNION {FilesOf(p) : p \in DOMAIN paths}
    <2>1. {queue[i] : i \in 1 .. idx} = {}
        BY <1>2
    <2> QED BY <1>5, <2>1 DEF Claimed
<1>7. RanFiles = Claimed /\ Len(ran) = Cardinality(RanFiles)
    BY <1>1, <1>3 DEF Accounted
<1>8. \A i \in DOMAIN ran : SoundIn(content, ran[i].file)
    <2> SUFFICES ASSUME NEW i \in DOMAIN ran PROVE SoundIn(content, ran[i].file)
        OBVIOUS
    <2>1. ran[i].end # "Panic" /\ ran[i].end # "Err"
        BY <1>1, <1>2, <1>3, Zenon DEF Judged
    <2> QED BY <1>1, <2>1 DEF Judged
<1>9. \A p \in DOMAIN paths : \A f \in FilesOf(p) : Sound(f)
    <2> SUFFICES ASSUME NEW p \in DOMAIN paths, NEW f \in FilesOf(p) PROVE Sound(f)
        OBVIOUS
    <2>1. f \in RanFiles
        BY <1>6, <1>7
    <2> QED BY <1>8, <2>1, SoundIsSoundIn DEF RanFiles
<1> QED BY <1>6, <1>7, <1>9, Zenon DEF RanFiles

\* A run that fails has an empty path, or a file that is not sound.
LEMMA ErrorIsEarned ==
    ASSUME RunnerInv, Earned, verdict = "err"
    PROVE  queue \in {Missing, <<>>} \/ \E f \in FilesOf(path) : ~Sound(f)
<1>1. Placed /\ Explained
    BY Zenon DEF RunnerInv, Earned
<1>2. CASE Quit({"Err", "Panic"})
    <2>1. PICK w \in DOMAIN worker : worker[w].pc = "ended" /\ worker[w].end \in {"Err", "Panic"}
        BY <1>2, Zenon DEF Quit
    <2>2. Knows(content, Range(queue), worker[w])
        BY <1>1, Zenon DEF Placed
    <2>3. ~SoundIn(content, worker[w].file) /\ worker[w].file \in Range(queue)
        BY <2>1, <2>2 DEF Knows
    <2>4. FilesOf(path) = Range(queue)
        BY DEF FilesOf, queue
    <2> QED BY <2>3, <2>4, SoundIsSoundIn, Zenon
<1> QED BY <1>1, <1>2, Zenon DEF Explained

\* A run that kept going has counted the files that are not sound.
LEMMA ExitIsEarned ==
    ASSUME RunnerInv, Earned, verdict = "exit"
    PROVE  n_errors = Cardinality({f \in FilesOf(path) : ~Sound(f)})
<1>1. Typed /\ Placed /\ Accounted /\ Judged /\ Counted /\ Explained
    BY Zenon DEF RunnerInv, Earned
<1>2. thread_errors = <<>> /\ worker # <<>> /\ joined = Len(worker)
    BY <1>1, Zenon DEF Explained
<1>3. /\ \A w \in DOMAIN worker : worker[w].pc = "ended" /\ worker[w].end = "Ok"
      /\ idx = Len(queue) /\ Held = {} /\ Uncounted = {}
    BY <1>2, AllJoined, Zenon
<1>4. queue \in Seq(FileSet) /\ FilesOf(path) = Range(queue)
    BY <1>1, <1>2, Zenon DEF Placed, FilesOf, queue
<1>5. Range(queue) \subseteq RanFiles
    <2>1. Range(queue) \subseteq {queue[i] : i \in 1 .. idx}
        BY <1>3, <1>4 DEF Range
    <2>2. RanFiles = Claimed
        BY <1>1, <1>3 DEF Accounted
    <2> QED BY <2>1, <2>2 DEF Claimed
<1>6. \A i \in DOMAIN ran : ran[i].end # "Panic"
    BY <1>1, <1>3 DEF Judged
<1>7. \A i \in DOMAIN ran : ran[i].end = "Err" <=> ~SoundIn(content, ran[i].file)
    BY <1>1, <1>6 DEF Judged
<1>8. Failing = {f \in Range(queue) : ~SoundIn(content, f)}
    BY <1>5, <1>7, Zenon DEF Failing, RanFiles
<1>9. {f \in FilesOf(path) : ~Sound(f)} = Failing
    BY <1>4, <1>8, SoundIsSoundIn, Zenon
<1>10. n_errors \in Nat /\ n_errors + Cardinality(Uncounted) = Cardinality(Failing)
    BY <1>1, <1>2, Zenon DEF Counted, Typed
<1>11. Cardinality(Uncounted) = 0
    BY <1>3, FS_EmptySet
<1>12. n_errors = Cardinality(Failing)
    BY <1>10, <1>11
<1> QED BY <1>9, <1>12, Zenon

\* The verdict is earned whatever the threads did, for any number of them, of paths and of
\* files, when no file is named twice on the command line: a pass means that every file ran,
\* once, and is sound, an error or an exit that some file is not, and the counter of a run
\* that kept going is the number of those files (run, run_test_worker).
THEOREM VerdictsAreHonest ==
    ASSUME NoFileTwice
    PROVE  Spec => []VerdictIsHonest
<1>1. RunnerInv /\ Earned => VerdictIsHonest
    BY PassIsEarned, ErrorIsEarned, ExitIsEarned, Zenon DEF VerdictIsHonest
<1>2. RunnerInv /\ Earned /\ [Next]_vars => Earned'
    BY StepEarns, Zenon
<1> QED BY <1>1, <1>2, InitEarns, SpecSteps, RunnerIsInductive, PTL
=============================================================================
