------------------------------- MODULE MCSymbols -------------------------------
(* Instances of Symbols for TLC. *)
EXTENDS Symbols

CONSTANTS f1, f2, f3, f4, a1, a2

Four == {f1, f2, f3, f4}

Foo == <<"foo">>
Bar == <<"foo", "bar">>
Baz == <<"foo", "bar", "baz">>
Qux == <<"foo", "qux">>
AllNames == {Foo, Bar, Baz, Qux}

File0(pkg, syms) == [pkg |-> pkg, syms |-> syms, dup |-> FALSE, exts |-> <<>>, imports |-> <<>>]

\* f1, a descriptor, has the messages of package foo; f2 is a file of package
\* foo.bar, of foo or of no package; f3 extends a message of f1, and f4 does
\* too or declares the same name twice.
Of(d1, d2, d3, d4) == [f \in Four |-> CASE f = f1 -> d1 [] f = f2 -> d2 [] f = f3 -> d3 [] f = f4 -> d4]
Message == File0(Foo, {Qux})
Seconds == {File0(Bar, {Baz}), File0(Foo, {Bar}), File0(<<>>, {Foo})}
Thirds == {[File0(Foo, {Bar, Baz}) EXCEPT !.imports = <<f1>>, !.exts = <<<<Foo, Qux, 1>>>>],
           [File0(<<>>, {}) EXCEPT !.imports = <<f1>>, !.exts = <<<<Foo, Qux, 1>>>>]}
Fourths == {[File0(Bar, {}) EXCEPT !.imports = <<f1>>, !.exts = <<<<Foo, Qux, t>>>>] : t \in {1, 2}}
           \cup {[File0(Bar, {Baz}) EXCEPT !.dup = TRUE]}
LinkDescs == {Of(Message, d2, d3, d4) : d2 \in Seconds, d3 \in Thirds, d4 \in Fourths}
Linked == {f2, f3, f4}
==============================================================================
