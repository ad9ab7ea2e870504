-------------------------- MODULE StateTestRunner --------------------------
(***************************************************************************)
(* The state test runner (crates/state-test): worker threads take test     *)
(* files from a shared queue, count failures in a shared counter and are   *)
(* joined by the main thread, which gives the verdict of the run.          *)
(*                                                                         *)
(* A step of a worker is one access to something shared: the counter, the  *)
(* queue, the flag of the debug trace.  What the EVM makes of a test is    *)
(* part of the test (its fields exec, output, logs, root).                 *)
(***************************************************************************)
EXTENDS Integers, Sequences, FiniteSets, SequencesExt

CONSTANTS
    CommandLines, \* sequences of paths; a path is the sequence of the files found
                  \* in it, empty without a JSON file, or Missing
    Missing,      \* a path that does not exist
    Contents,     \* the contents the files may have: functions from files to suites
    Parallelism   \* the values of available_parallelism(); 0 is an error

Test == [spec : STRING, tx : STRING, typed : BOOLEAN, to : BOOLEAN, list : STRING, exception : BOOLEAN,
         exec : STRING, output : STRING, logs : BOOLEAN, root : BOOLEAN]
TestSuite == [kind : {"skipped", "unreadable", "not JSON", "suite"}, tests : Seq(Test)]

ASSUME RunnerAssumption ==
    /\ Parallelism \subseteq Nat
    /\ \A c \in Contents :
         /\ c \in [DOMAIN c -> TestSuite]
         /\ CommandLines \subseteq Seq({Missing} \cup Seq(DOMAIN c))

VARIABLES
    paths,        \* the paths on the command line
    content,      \* what is in every file
    config,       \* TestRunnerConfig, and the parallelism
    failed,       \* the static FAILED: a debug trace was printed
    path,         \* the index of the path that is run, 0 before the first
    idx,          \* the position of the queue
    n_errors,     \* the shared counter of errors
    worker,       \* the threads of this path
    thread_errors,\* what join gave to the main thread so far
    joined,       \* how many threads are joined
    verdict,      \* of the command: "none", "pass", "err", "exit"
    ran,          \* history: the suites executed, with their end
    late,         \* history: the files claimed after an error was counted
    traces        \* history: the files a debug trace was printed for

main == <<path, joined, thread_errors, verdict>>
shared == <<failed, idx, n_errors>>
history == <<ran, late, traces>>
input == <<paths, content, config>>
vars == <<input, main, shared, worker, history>>

queue == paths[path]
Threads == 1 .. Max(Parallelism \cup {1})

-----------------------------------------------------------------------------
(* One test: its transaction, its execution and its expectations. *)

\* Blob and authorization transactions need a target, unless the type is given.
tx_type(t) == IF t.typed \/ t.to \/ t.list = "none" THEN "Some" ELSE "None"

\* A malformed unit (an index out of range, a nonce of more than 64 bits) panics.
tx_env(t) == IF t.tx = "unsigned" \/ tx_type(t) = "None" THEN "Err"
             ELSE IF t.tx = "malformed" THEN "Panic" ELSE "Ok"

validate_exception(t) ==
    CASE ~t.exception /\ t.exec = "Ok" -> "None"
      [] t.exception /\ t.exec = "Err" -> "Expected"
      [] OTHER -> "UnexpectedException"

\* Outputs are compared when both are there.
validate_output(t) == t.output # "differs"

check_evm_execution(t) ==
    CASE validate_exception(t) = "UnexpectedException" -> "Err"
      [] validate_exception(t) = "Expected" -> "Ok"
      [] OTHER -> IF validate_output(t) /\ t.logs /\ t.root THEN "Ok" ELSE "Err"

\* The roots the checks compare are those of the execution; the EVM may panic.
execute_single_test(t) == IF t.exec = "Panic" THEN "Panic" ELSE check_evm_execution(t)

\* The iteration of execute_test_suite for one test: its end, or "Next".
test_end(t) ==
    CASE t.spec = "Constantinople" -> "Next"
      [] t.spec = "Unknown" -> "Panic"
      [] OTHER ->
           CASE tx_env(t) = "Panic" -> "Panic"
             [] tx_env(t) = "Err" -> IF t.exception THEN "Next" ELSE "Unrunnable"
             [] tx_env(t) = "Ok" -> IF execute_single_test(t) = "Ok" THEN "Next" ELSE execute_single_test(t)

\* What a file is for the runner before its first test.
open_suite(f) == CASE content[f].kind = "skipped" -> "Ok"
                   [] content[f].kind = "unreadable" -> "Panic"
                   [] content[f].kind = "not JSON" -> "Err"
                   [] OTHER -> "Suite"

-----------------------------------------------------------------------------
(* The configuration, the threads and the queue. *)

TestRunnerConfig(single_thread, trace, print_outcome, keep_going, n) ==
    [trace |-> trace, print_outcome |-> print_outcome \/ trace,
     single_thread |-> single_thread \/ print_outcome \/ trace,
     keep_going |-> keep_going, parallelism |-> n]

determine_thread_count(n_files) ==
    IF config.single_thread \/ config.parallelism = 0 THEN 1
    ELSE IF config.parallelism < n_files THEN config.parallelism ELSE n_files

Fresh == [pc |-> "load", file |-> "", pos |-> 0, end |-> "none"]

Init ==
    /\ paths \in CommandLines /\ content \in Contents
    /\ \E s, t, o, k \in BOOLEAN, n \in Parallelism : config = TestRunnerConfig(s, t, o, k, n)
    /\ failed = FALSE
    /\ path = 0 /\ idx = 0 /\ n_errors = 0 /\ worker = <<>>
    /\ thread_errors = <<>> /\ joined = 0 /\ verdict = "none"
    /\ ran = <<>> /\ late = <<>> /\ traces = <<>>

set(w, r) == worker' = [worker EXCEPT ![w] = r]
goto(w, pc) == set(w, [worker[w] EXCEPT !.pc = pc])
return(w, end) == set(w, [worker[w] EXCEPT !.pc = "ended", !.end = end])

\* The load of the error counter at the head of the loop.
Mut_LoadErrors_never(w) ==
    /\ worker[w].pc = "load" /\ goto(w, "claim")
    /\ UNCHANGED <<input, main, shared, history>>

\* The thread waits for the others instead of returning.
Mut_LoadErrors_waits(w) ==
    /\ worker[w].pc = "load" /\ (config.keep_going \/ n_errors = 0) /\ goto(w, "claim")
    /\ UNCHANGED <<input, main, shared, history>>

LoadErrors(w) ==
    /\ worker[w].pc = "load"
    /\ IF ~config.keep_going /\ n_errors > 0 THEN return(w, "Ok") ELSE goto(w, "claim")
    /\ UNCHANGED <<input, main, shared, history>>

\* next_test, under the lock of the queue.
NextTest(w) ==
    /\ worker[w].pc = "claim"
    /\ IF idx < Len(queue)
       THEN /\ idx' = idx + 1
            /\ set(w, [Fresh EXCEPT !.pc = "open", !.file = queue[idx + 1]])
            /\ late' = IF n_errors > 0 THEN Append(late, queue[idx + 1]) ELSE late
       ELSE return(w, "Ok") /\ UNCHANGED <<idx, late>>
    /\ UNCHANGED <<input, main, failed, n_errors, ran, traces>>

\* The end of execute_test_suite: a panic ends the thread, a result is counted.
ended(w, end) ==
    /\ ran' = Append(ran, [file |-> worker[w].file, end |-> end])
    /\ IF end = "Panic" THEN return(w, "Panic")
       ELSE set(w, [worker[w] EXCEPT !.pc = "count", !.end = end])

OpenSuite(w) ==
    /\ worker[w].pc = "open"
    /\ IF open_suite(worker[w].file) = "Suite" THEN goto(w, "test") /\ UNCHANGED ran
       ELSE ended(w, open_suite(worker[w].file))
    /\ UNCHANGED <<input, main, shared, late, traces>>

\* The next test of the suite.  Only a failed execution swaps FAILED; a
\* transaction that cannot be built is an error without a trace.
Mut_ExecuteTest_flag_not_set(w) ==
    LET tests == content[worker[w].file].tests
        i == worker[w].pos + 1
        end == IF i > Len(tests) THEN "Ok" ELSE test_end(tests[i])
    IN /\ worker[w].pc = "test"
       /\ IF end = "Next" THEN set(w, [worker[w] EXCEPT !.pos = i]) /\ UNCHANGED ran
          ELSE IF end = "Err" /\ ~config.print_outcome THEN goto(w, "trace") /\ UNCHANGED ran
          ELSE ended(w, IF end = "Unrunnable" THEN "Err" ELSE end)
       /\ UNCHANGED <<input, main, shared, late, traces>>

ExecuteTest(w) ==
    LET tests == content[worker[w].file].tests
        i == worker[w].pos + 1
        end == IF i > Len(tests) THEN "Ok" ELSE test_end(tests[i])
    IN /\ worker[w].pc = "test"
       /\ IF end = "Next" THEN set(w, [worker[w] EXCEPT !.pos = i]) /\ UNCHANGED <<ran, failed>>
          ELSE IF end = "Err" /\ ~config.print_outcome
          THEN /\ failed' = TRUE
               /\ IF failed THEN ended(w, "Err") ELSE goto(w, "trace") /\ UNCHANGED ran
          ELSE ended(w, IF end = "Unrunnable" THEN "Err" ELSE end) /\ UNCHANGED failed
       /\ UNCHANGED <<input, main, idx, n_errors, late, traces>>

\* debug_failed_test: the test runs once more, with a trace.
DebugFailedTest(w) ==
    /\ worker[w].pc = "trace"
    /\ traces' = Append(traces, worker[w].file)
    /\ ended(w, "Err")
    /\ UNCHANGED <<input, main, shared, late>>

\* The result of a suite: the bar, the counter, and the return without keep_going.
CountResult(w) ==
    /\ worker[w].pc = "count"
    /\ n_errors' = IF worker[w].end = "Err" THEN n_errors + 1 ELSE n_errors
    /\ IF worker[w].end = "Err" /\ ~config.keep_going THEN return(w, "Err") ELSE goto(w, "load")
    /\ UNCHANGED <<input, main, failed, idx, history>>

Worker(w) == \/ LoadErrors(w) \/ NextTest(w) \/ OpenSuite(w) \/ ExecuteTest(w)
             \/ DebugFailedTest(w) \/ CountResult(w)

-----------------------------------------------------------------------------
(* The main thread. *)

running == path > 0 /\ verdict = "none" /\ worker # <<>>

\* Cmd::run takes the next path, or is done with all of them.
NextPath ==
    /\ verdict = "none" /\ worker = <<>>
    /\ path' = path + 1
    /\ verdict' = IF path = Len(paths) THEN "pass"
                  ELSE IF paths[path + 1] \in {Missing, <<>>} THEN "err" ELSE "none"
    /\ worker' = IF verdict' = "none"
                 THEN [i \in 1 .. determine_thread_count(Len(paths[path + 1])) |-> Fresh]
                 ELSE <<>>
    /\ idx' = 0 /\ n_errors' = 0 /\ joined' = 0 /\ thread_errors' = <<>>
    /\ UNCHANGED <<input, failed, history>>

\* The threads are joined in the order in which they were spawned.
Join ==
    /\ running /\ joined < Len(worker)
    /\ worker[joined + 1].pc = "ended"
    /\ joined' = joined + 1
    /\ thread_errors' = IF worker[joined + 1].end = "Ok" THEN thread_errors
                        ELSE Append(thread_errors, worker[joined + 1].end)
    /\ UNCHANGED <<input, path, verdict, shared, worker, history>>

\* The summary of a path: the next path, an error, or the exit of the process.
Mut_Summary_counter_only ==
    /\ running /\ joined = Len(worker)
    /\ verdict' = IF n_errors = 0 THEN "none" ELSE "err"
    /\ worker' = IF verdict' = "none" THEN <<>> ELSE worker
    /\ UNCHANGED <<input, path, joined, thread_errors, shared, history>>

Summary ==
    /\ running /\ joined = Len(worker)
    /\ verdict' = IF thread_errors # <<>> THEN "err" ELSE IF n_errors = 0 THEN "none" ELSE "exit"
    /\ worker' = IF verdict' = "none" THEN <<>> ELSE worker
    /\ UNCHANGED <<input, path, joined, thread_errors, shared, history>>

Next == NextPath \/ Join \/ Summary \/ \E w \in DOMAIN worker : Worker(w)

\* Every thread is scheduled; the queue and the flag are held for one step only.
Spec == /\ Init /\ [][Next]_vars
        /\ WF_vars(NextPath \/ Join \/ Summary)
        /\ \A w \in Threads : WF_vars(w \in DOMAIN worker /\ Worker(w))

-----------------------------------------------------------------------------
(* Properties *)

TypeOK ==
    /\ path \in 0 .. Len(paths) + 1 /\ failed \in BOOLEAN /\ n_errors \in Nat
    /\ verdict \in {"none", "pass", "err", "exit"}
    /\ DOMAIN worker \subseteq Threads
    /\ worker # <<>> => joined \in 0 .. Len(worker) /\ idx \in 0 .. Len(queue)
    /\ \A w \in DOMAIN worker :
          /\ worker[w].pc \in {"load", "claim", "open", "test", "trace", "count", "ended"}
          /\ worker[w].end \in {"none", "Ok", "Err", "Panic"}

\* A test that holds what it expects, by the meaning of its fields.
Holds(t) ==
    \/ t.spec = "Constantinople"
    \/ /\ t.spec # "Unknown"
       /\ IF t.tx = "unsigned" \/ (~t.typed /\ ~t.to /\ t.list # "none") THEN t.exception
          ELSE \/ t.tx # "malformed" /\ t.exception /\ t.exec = "Err"
               \/ t.tx # "malformed" /\ ~t.exception /\ t.exec = "Ok" /\ t.logs /\ t.root /\ t.output # "differs"

Sound(f) == \/ content[f].kind = "skipped"
            \/ content[f].kind = "suite" /\ \A i \in DOMAIN content[f].tests : Holds(content[f].tests[i])

FilesOf(p) == Range(paths[p])

\* The verdict is earned whatever the threads did (run, run_test_worker): a pass
\* means that every file of every path ran, once, and is sound; anything else
\* that some path is empty or missing or some file is not sound; and the errors
\* of a run that kept going are exactly the files that are not sound.
VerdictIsHonest ==
    /\ verdict = "pass" =>
          /\ \A p \in DOMAIN paths : \A f \in FilesOf(p) : Sound(f)
          /\ {ran[i].file : i \in DOMAIN ran} = UNION {FilesOf(p) : p \in DOMAIN paths}
          /\ Len(ran) = Cardinality(UNION {FilesOf(p) : p \in DOMAIN paths})
    /\ verdict = "err" => \/ queue \in {Missing, <<>>}
                          \/ \E f \in FilesOf(path) : ~Sound(f)
    /\ verdict = "exit" => n_errors = Cardinality({f \in FilesOf(path) : ~Sound(f)})

\* Nothing runs behind the verdict, and without keep_going every thread takes at
\* most one file after an error was counted (the load and the claim are two steps).
FailsFast ==
    /\ verdict \in {"err", "exit"} => \A w \in DOMAIN worker : worker[w].pc = "ended"
    /\ ~config.keep_going /\ late # <<>> => Len(late) < Len(worker)

\* The trace of a failure is printed once for the process, whichever threads fail
\* first, and never in the JSON modes (FAILED.swap in execute_test_suite).
TracedOnce ==
    /\ Len(traces) <= 1
    /\ config.print_outcome \/ verdict = "pass" => traces = <<>>
    /\ \A i \in DOMAIN traces : ~Sound(traces[i])

\* The command ends: no thread is left waiting and none is waited for in vain.
Terminates == <>(verdict # "none")

=============================================================================
