----------------------------- MODULE MCOwnership -----------------------------
(***************************************************************************)
(* OwnedFunction over enumerated function bodies.  The parameters are a    *)
(* pair x, an array a, a value c with its own Drop and a leaf w; y, z, q   *)
(* and v are locals, and t and u are the temporaries of matched calls.     *)
(* i and j are references, i the receiver, and n owns nothing; r, s and d  *)
(* are locals for references.                                              *)
(***************************************************************************)
EXTENDS OwnedFunction

MCBinding == {"x", "a", "c", "w", "y", "z", "q", "t", "u", "v", "i", "j", "n", "r", "s", "d"}

MCShape == [b \in MCBinding |->
    CASE b \in {"x", "u", "v"} -> "pair" [] b = "a" -> "array" [] b = "c" -> "custom"
      [] b = "t" -> "option" [] b = "n" -> "plain" [] b = "d" -> "refs"
      [] b \in {"i", "j", "r", "s"} -> "ref" [] OTHER -> "leaf"]

MCParameters == <<"i", "x", "a", "c", "w", "n", "j">>

MCSignature ==
    [method |-> TRUE, standard |-> FALSE, result |-> TRUE,
     bearing |-> [k \in DOMAIN MCParameters |-> MCParameters[k] \in {"i", "j"}]]

MCLoans == 1..3

X  == <<"x">>
X0 == <<"x", "0">>
X1 == <<"x", "1">>
Y  == <<"y">>
Z  == <<"z">>
W  == <<"w">>
A  == <<"a">>
A0 == <<"a", "0">>
Ai == <<"a", "dyn">>
C  == <<"c">>
C0 == <<"c", "0">>

Call        == [e |-> "new"]
Read(p)     == [e |-> "read", p |-> p]
Move(p)     == [e |-> "move", p |-> p]
Both(l, r)  == [e |-> "and", l |-> l, r |-> r]
Try(x)      == [e |-> "try", x |-> x]
Panic       == [e |-> "panic"]
NoGuard     == [e |-> "none"]

Ref(p, k, id) == [e |-> "borrow", p |-> p, k |-> k, id |-> id]
Get(p, k, id)  == [e |-> "get", p |-> p, k |-> k, id |-> id]
Lock(p)        == [e |-> "lock", p |-> p, k |-> "shared"]
Tuple(l, r)    == [e |-> "tuple", l |-> l, r |-> r]
CallWith(sig, l, r) == [e |-> "call", args |-> <<l, r>>, sig |-> sig]

Let(b, x)      == [s |-> "let", b |-> b, x |-> x]
Assign(p, x)   == [s |-> "assign", p |-> p, x |-> x]
Do(x)          == [s |-> "expr", x |-> x]
Return(x)      == [s |-> "return", x |-> x]
If(t, e)       == [s |-> "if", cond |-> Call, then |-> t, else |-> e]
While(c, body) == [s |-> "while", cond |-> c, body |-> body]
For(b, x, body) == [s |-> "for", b |-> b, x |-> x, body |-> body]
Match(x, temp, arms) == [s |-> "match", x |-> x, temp |-> temp, arms |-> arms]
Arm(pat, guard, body) == [pat |-> pat, guard |-> guard, body |-> body]
Block(body)    == [s |-> "block", body |-> body]
Defer(d, body) == [s |-> "defer", d |-> d, body |-> body]
Expect(body)   == [s |-> "expect", body |-> body]
Break    == [s |-> "break"]
Continue == [s |-> "continue"]
Pass     == [s |-> "pass"]

Wild    == [p |-> "wild"]
Lit     == [p |-> "lit"]
Bind(b) == [p |-> "bind", b |-> b]
Pair(l, r) == [p |-> "pair", left |-> l, right |-> r]
Some(b) == [p |-> "some", b |-> b]
None    == [p |-> "none"]

\* Steps on the pair x and the local y.  Each local has one declaration and
\* is mentioned only in its scope, as name resolution ensures.
Steps ==
    {Let("q", Move(X0)), Do(Move(X0)), Do(Move(X)), Do(Move(Y)), Do(Read(X)),
     Do(Read(X1)), Do(Read(Y)), Assign(X0, Call), Assign(X0, Move(Y)), Assign(X, Call),
     Do(Both(Call, Move(X0))), Do(Try(Move(X1)))}

\* Steps on the array and on the value with its own Drop.
OtherSteps ==
    {Do(Read(Ai)), Do(Move(A0)), Do(Move(Ai)), Assign(A0, Call), Do(Move(A)), Assign(A, Call),
     Do(Move(C)), Do(Move(C0)), Do(Read(C)), Do(Read(C0)), Assign(C, Call), Assign(C0, Call)}

Exits == {Break, Continue, Return(Call), Return(Move(X))}

Ends == {Do(Read(X)), Do(Read(Y)), Return(Move(X)), Assign(X, Call)}

Local == Let("y", Call)

Straight == {<<Let("y", x), s, t>> : x \in {Call, Move(X0), Try(Call)}, s \in Steps, t \in Ends}

\* A whole value with its own Drop is never rebuilt field by field here.
Others == {<<r, s, t>> \in OtherSteps \X OtherSteps \X OtherSteps :
              ~(Assign(C0, Call) \in {s, t} /\ Do(Move(C)) \in {r, s})}

Branches == {<<Local, If(<<s>>, <<t>>), e>> :
                s \in Steps \cup {Return(Call), Do(Panic)},
                t \in {Pass, Do(Move(X0)), Do(Move(Y)), Assign(X0, Call), Assign(X, Call)}, e \in Ends}

Loops == {<<Local, While(cond, <<s, t>>), e>> :
             cond \in {Call, Both(Call, Read(X0))}, s \in Steps,
             t \in {Do(Read(X)), Do(Read(Y)), Assign(X0, Call), Assign(X, Call)} \cup Exits,
             e \in {Do(Read(X)), Return(Move(X)), Assign(X, Call)}}

Nested == {<<Local, While(Call, <<Let("z", Call), If(<<s, exit>>, <<t>>), Do(Move(Z))>>), Do(Read(X1))>> :
              s \in Steps \cup {Do(Move(Z))}, exit \in Exits \cup {Pass},
              t \in {Do(Read(Z)), Assign(X0, Call), Assign(X0, Move(Z))}}

Iterations == {<<For("z", source, <<s, If(<<exit>>, <<>>), t>>), e>> :
                  source \in {Call, Move(A)}, s \in {Do(Read(Z)), Do(Move(Z)), Assign(X0, Move(Z))},
                  exit \in Exits \cup {Do(Try(Call))}, t \in {Pass, Local, Do(Read(Z))},
                  e \in {Pass, For("q", Call, <<Do(Read(X1))>>)}}

\* Deferred bodies that mention w, c, or a local of their scope, none of
\* which is moved after the registration.
Defers == {<<Defer(1, <<Do(Read(W))>>),
             While(Call, <<Let("z", Call), Defer(2, <<Do(Read(Z)), Let("q", Call)>>),
                           If(<<s, exit>>, <<>>),
                           Defer(3, last)>>),
             Block(<<Defer(4, <<Do(Move(C))>>), t>>)>> :
              s \in {Pass, Do(Try(Call)), Do(Move(X0)), Local, Assign(X0, Call)},
              exit \in Exits \cup {Do(Panic)}, last \in {<<Assign(X1, Call)>>, <<Do(Read(W))>>},
              t \in {Pass, Return(Call), Do(Try(Call)), Expect(<<Do(Move(X1))>>)}}

\* Matches of a call's result, whose payload moves into the arm.
Matches == {<<Match(Call, "t", <<Arm(Some("z"), guard, <<s>>), Arm(other, NoGuard, <<t>>),
                                 Arm(Some("q"), NoGuard, <<Do(Read(<<"q">>))>>)>>), e>> :
               guard \in {NoGuard, Read(X0)}, other \in {None},
               s \in {Do(Move(Z)), Do(Read(Z)), Assign(X0, Move(Z)), Return(Move(Z))},
               t \in {Pass, Assign(X0, Call), Do(Move(X)), Return(Call)},
               e \in {Do(Read(X)), Do(Read(X1)), Pass}}
        \cup {<<Match(Read(X), "t", <<Arm(Lit, NoGuard, <<s>>), Arm(Wild, NoGuard, <<t>>)>>), e>> :
               s \in {Do(Move(X0)), Do(Read(X))}, t \in {Pass, Assign(X, Call)},
               e \in {Pass, Assign(X, Call), Do(Read(X))}}
        \cup {<<Match(Call, "u", <<Arm(Pair("z", "q"), guard, <<s>>), Arm(Bind("v"), NoGuard, <<>>)>>), e>> :
               guard \in {NoGuard, Read(Z)}, s \in {Do(Move(Z)), Assign(X0, Move(Z)), Do(Try(Call)), Return(Move(Z))},
               e \in {Pass, Do(Read(X))}}

-----------------------------------------------------------------------------
(* Borrows *)

N  == <<"n">>
N0 == <<"n", "0">>
N1 == <<"n", "1">>
R  == <<"r">>
I  == <<"i">>
J  == <<"j">>
Of(b) == <<b, "*">>
UseRef(b) == Do(Read(Of(b)))

Method   == [method |-> TRUE, standard |-> FALSE, result |-> TRUE, bearing |-> <<TRUE, TRUE>>]
Standard == [method |-> FALSE, standard |-> TRUE, result |-> TRUE, bearing |-> <<TRUE, TRUE>>]
Owned    == [method |-> FALSE, standard |-> FALSE, result |-> FALSE, bearing |-> <<TRUE, TRUE>>]

Kinds == {"shared", "exclusive"}

PlainSteps == {Assign(N0, Call), Assign(N1, Call), Assign(N, Call), Do(Read(N0)), Do(Read(N))}

\* Two loans of one value, whole or in parts, and an access in between.
TwoLoans == {<<Let("r", Ref(p, k, 1)), Let("s", Ref(q, m, 2)), step, UseRef(b), last>> :
                p \in {N, N0}, q \in {N0, N1}, k \in Kinds, m \in Kinds, step \in PlainSteps,
                b \in {"r", "s"}, last \in {UseRef("r"), Assign(N0, Call), Assign(Of("s"), Call)}}

OwnedLoans == {<<Let("r", x), step, UseRef("r"), last>> :
                  x \in {Ref(X, "shared", 1), Ref(X0, "exclusive", 1), Get(X, "shared", 1),
                         Get(X, "exclusive", 1)},
                  step \in {Do(Move(X)), Do(Move(X0)), Do(Move(X1)), Assign(X, Call),
                            Assign(X1, Call), Do(Read(X)), Do(Read(X1)), Do(Try(Move(X1)))},
                  last \in {Pass, Do(Read(X1)), Assign(X, Call)}}

\* A reference leaves an aggregate, or a call, with its own loans only.
Aggregates == {<<Let("d", Tuple(Ref(p, "shared", 1), Ref(q, "shared", 2))),
                 Let("r", Read(<<"d", f>>)), step, UseRef("r"), last>> :
                  p \in {N0, N}, q \in {N1, X0}, f \in {"0", "1"},
                  step \in {Assign(N0, Call), Assign(N1, Call), Assign(X, Call), Do(Move(X0))},
                  last \in {Pass, Assign(N, Call), Do(Read(<<"d", "0", "*">>))}}
           \cup {<<Let("r", CallWith(sig, Ref(N0, k, 1), Ref(q, "shared", 2))), step, UseRef("r")>> :
                  sig \in {Method, Standard}, k \in Kinds, q \in {N0, N1}, step \in PlainSteps}
           \cup {<<Let("r", Ref(p, k, 1)), Do(CallWith(Owned, Ref(q, m, 2), Read(X))),
                   UseRef("r")>> : p \in {N, N0}, q \in {N0, N1}, k \in Kinds, m \in Kinds}

\* A reference made again in a loop, a branch or an early exit.
LoopedLoans == {<<Let("r", Ref(N0, "shared", 1)),
                  While(Call, <<before, UseRef("r"), step, If(<<t>>, <<exit>>), after>>), last>> :
                   before \in {Pass, Assign(N1, Call)}, step \in {Pass, Assign(N0, Call), Assign(N1, Call)},
                   t \in {Assign(R, Ref(N1, "shared", 2)), UseRef("r")},
                   exit \in {Continue, Break, Assign(R, Ref(X0, "shared", 3))}, after \in {UseRef("r"), Pass},
                   last \in {UseRef("r"), Assign(N, Call), Do(Move(X0))}}

DeferredLoans == {<<Let("r", Ref(N0, k, 1)), Block(<<Defer(1, <<UseRef("r")>>), step>>), last>> :
                     k \in Kinds, step \in PlainSteps \cup {Return(Call), Do(Try(Call))},
                     last \in {Assign(N0, Call), UseRef("r"), Expect(<<Assign(N0, Call)>>)}}
              \cup {<<Let("r", Ref(N0, "shared", 1)),
                      Match(Call, "t", <<Arm(Some("z"), Read(Of("r")), <<step>>), Arm(None, NoGuard, <<>>),
                                         Arm(Some("q"), NoGuard, <<Assign(R, Ref(N1, "shared", 2))>>)>>),
                      last, UseRef("r")>> :
                     step \in PlainSteps, last \in {Pass, Assign(N1, Call), Assign(N0, Call)}}

\* What may be returned, and reborrows of an input.
Returned == {<<Let("r", x), step, Return(y)>> :
                x \in {Ref(N0, "shared", 1), Ref(Of("i"), "shared", 1), Ref(I, "exclusive", 1),
                       Ref(J, "shared", 1), CallWith(Method, Ref(I, "shared", 1), Ref(N0, "shared", 2)),
                       CallWith(Standard, Ref(I, "shared", 1), Ref(J, "shared", 2))},
                step \in {Pass, Do(Read(Of("i"))), Assign(Of("i"), Call), UseRef("r")},
                y \in {Read(R), Move(I), Move(J), Ref(Of("r"), "shared", 3), Ref(N1, "shared", 3), Call}}

BorrowingPrograms ==
    TwoLoans \cup OwnedLoans \cup Aggregates \cup LoopedLoans \cup DeferredLoans \cup Returned

\* The manual's own example of a rejected access, with and without the write
\* through the reference that makes the checker lose the loan.
LostLoans ==
    {<<Let("r", Ref(N0, "exclusive", 1)), s, Do(Read(N0)), UseRef("r")>> :
        s \in {Pass, Assign(Of("r"), Call)}}

SoundPrograms ==
    Straight \cup Others \cup Branches \cup Loops \cup Nested \cup Iterations \cup Defers \cup Matches
    \cup BorrowingPrograms

\* A local that a deferred body mentions is moved after the registration.
DeferPrograms ==
    {<<Local, Defer(1, <<Do(Read(Y))>>), s>> :
        s \in {Do(Read(Y)), Do(Move(Y)), Assign(Y, Call)}}

\* A local is matched in place and its value bound by the pattern.
MatchPrograms ==
    {<<Local, Match(Read(Y), "t", <<Arm(pat, NoGuard, <<s>>)>>)>> :
        pat \in {Wild, Bind("z")}, s \in {Pass, Do(Read(X))}}
=============================================================================
