------------------------- MODULE MCStateTestRunner -------------------------
(* Three files on one path and a fourth on a second one.  The probe file holds *)
(* any file or test there can be; the others pass, fail or panic.              *)
EXTENDS StateTestRunner

Good == [spec |-> "Frontier", tx |-> "ok", typed |-> TRUE, to |-> TRUE, list |-> "none",
         exception |-> FALSE, exec |-> "Ok", output |-> "same", logs |-> TRUE, root |-> TRUE]

Tests == {[Good EXCEPT !.spec = s] : s \in {"Constantinople", "Unknown"}}
   \cup {[Good EXCEPT !.tx = x, !.typed = ty, !.to = to, !.list = l, !.exception = e] :
             x \in {"ok", "unsigned", "malformed"}, ty, to, e \in BOOLEAN, l \in {"none", "blob"}}
   \cup {[Good EXCEPT !.exec = x, !.exception = e, !.output = o, !.logs = l, !.root = r] :
             x \in {"Ok", "Err", "Panic"}, e, l, r \in BOOLEAN, o \in {"same", "differs", "absent"}}

Suite(ts) == [kind |-> "suite", tests |-> ts]
Passes == Suite(<<Good, Good>>)
Fails == Suite(<<[Good EXCEPT !.root = FALSE], Good>>)
Panics == Suite(<<[Good EXCEPT !.exec = "Panic"]>>)
Probes == {[kind |-> k, tests |-> <<>>] : k \in {"skipped", "unreadable", "not JSON"}}
   \cup {Suite(<<t>>) : t \in Tests}

Files(p, b, c, d) == [f \in {"probe", "b", "c", "d"} |->
                         CASE f = "probe" -> p [] f = "b" -> b [] f = "c" -> c [] OTHER -> d]
MCContents == {Files(p, Passes, x, Passes) : p \in Probes, x \in {Passes, Fails}}
   \cup {Files(p, x, y, z) : p, x, y \in {Passes, Fails, Panics}, z \in {Passes, Fails}}
MCCommandLines == {<< <<"probe", "b", "c">>, <<"d">> >>, << <<"b", "probe">>, <<>> >>, << <<"d">>, Missing >>}
=============================================================================
