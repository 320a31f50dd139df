-------------------------- MODULE MCTypeCollector --------------------------
(***************************************************************************)
(* Translation units for TypeCollector: every tree of up to five classes   *)
(* and members, every tree of up to three that has enums and templates,    *)
(* too, a fixed set of types with every alias and registration of one of   *)
(* them, and a class and a template with a member of every type.           *)
(***************************************************************************)
EXTENDS TypeCollector

\* Types: what it is made of, and around it at most two pointers and references.
Written(kind, name, layers) == [alias |-> NoAlias, kind |-> kind, name |-> name, const |-> FALSE, layers |-> layers]
IntType == Written("builtin", "int", <<>>)
Pointer == [kind |-> "pointer", const |-> FALSE]
ConstPointer == [Pointer EXCEPT !.const = TRUE]
Reference == [kind |-> "reference", const |-> FALSE]

Decl(kind, name, depth) ==
    [kind |-> kind, name |-> name, depth |-> depth, tagged |-> FALSE, complete |-> TRUE,
     type |-> IntType, params |-> <<>>, names |-> <<>>, arguments |-> <<>>,
     target |-> NoTarget, known |-> {}, trivial |-> FALSE]
Tagged(d) == [d EXCEPT !.tagged = TRUE]
Forward(d) == [d EXCEPT !.complete = FALSE]

\* The declarations of the deeper trees, and of the flatter ones: a class twice,
\* forward, without tag and inside others; overloaded and defaulted methods.
Few == UNION {{Tagged(Decl("class", "A", k)), Decl("class", "A", k), Tagged(Decl("class", "B", k)),
               Tagged(Forward(Decl("class", "A", k))), Decl("field", "x", k),
               Decl("method", "run", k)} : k \in 0..2}
Many == Few \cup
        UNION {{Decl("class", "B", k), Tagged(Decl("enum", "E", k)), Tagged(Decl("template", "T", k)),
                Decl("field", "y", k), Forward(Decl("method", "run", k))} : k \in 0..2}

ParentOf(u, d) == Largest({i \in 1..(d - 1) : u[i].depth < u[d].depth} \cup {0})
Siblings(u, c, d) == u[c].depth = u[d].depth /\ ParentOf(u, c) = ParentOf(u, d)

\* What a compiler accepts.
Accepted(u) ==
    /\ u[1].depth = 0
    /\ \A d \in DOMAIN u :
        LET p == ParentOf(u, d)
        IN  /\ p # 0 => u[p].kind \in Containers /\ u[p].complete /\ u[p].depth = u[d].depth - 1
                        /\ u[p].name # u[d].name
            /\ p = 0 => u[d].depth = 0 /\ u[d].kind \notin {"field", "method"}
            /\ \A c \in 1..(d - 1) :
                Siblings(u, c, d) /\ u[c].name = u[d].name /\ u[c].complete /\ u[d].complete =>
                    u[c].kind = "method"

\* The trees are grown one declaration at a time.
Grown(trees, candidates) ==
    trees \cup {u \in {Append(t, d) : t \in trees, d \in candidates} : Accepted(u)}
Small == Grown(Grown({<<d>> : d \in {c \in Many : c.depth = 0 /\ Accepted(<<c>>)}}, Many), Many)
Deep == Grown(Grown(Grown(Grown({<<d>> : d \in {c \in Few : c.depth = 0 /\ Accepted(<<c>>)}},
                                Few), Few), Few), Few)

\* A class that is only declared, one with a nested class between its members, a
\* template, one with a nested class, an enum, and an alias of the second.
Library == <<
    Forward(Decl("class", "Opaque", 0)),
    Tagged(Decl("class", "A", 0)), Decl("field", "x", 1), Decl("class", "B", 1),
    Decl("field", "z", 2), Decl("method", "run", 1),
    Decl("template", "T", 0), Decl("field", "x", 1), Decl("method", "run", 1),
    Decl("template", "N", 0), Decl("field", "x", 1), Decl("class", "B", 1), Decl("method", "run", 1),
    Decl("enum", "E", 0), Decl("constant", "one", 1) >>
Targets == {Builtin, 1, 2, 4, 7, 10, 14}

Alias(name, target) == [Decl("alias", name, 0) EXCEPT !.target = target]
\* A registration and the "using Type" in it.
Registration(target, known, trivial) ==
    <<[Decl("registration", "R", 0) EXCEPT !.target = target, !.known = known, !.trivial = trivial]>>
    \o IF target = NoTarget THEN <<>>
       ELSE <<[Decl("alias", "Type", 1) EXCEPT !.target = target]>>

Asked == {{}, {"x"}, {"run", "z"}}
Registrations(targets) ==
    {Registration(t, k, FALSE) : t \in targets, k \in Asked}
      \cup {Registration(t, {}, TRUE) : t \in targets \ {NoTarget}}

\* An alias of any type, an alias of that alias, and a registration of any.
First == Len(Library) + 1
WithAliases ==
    UNION {{Library \o <<a, b>> \o r :
                a \in {Alias("I", t), Tagged(Alias("I", t))},
                b \in {Tagged(Alias("J", First))},
                r \in Registrations(Targets \cup {First, First + 1, NoTarget})} : t \in Targets}

\* One field or one method of every type, in a class, and in a template with one
\* or two parameters and its registration.
Around == {<<>>, <<Pointer>>, <<ConstPointer>>, <<Reference>>, <<Pointer, Reference>>, <<ConstPointer, Pointer>>}
Made(bases, around) == {[Written(b[1], b[2], l) EXCEPT !.const = c] : b \in bases, l \in around, c \in BOOLEAN}
Fixed == {<<"class", "A">>, <<"enum", "E">>, <<"opaque", "O">>}
Parameters == {<<"parameter", "K">>, <<"parameter", "V">>, <<"dependent", "Vec<V>">>}
Aliases == {[t EXCEPT !.alias = "Alias"] : t \in {IntType, Written("class", "A", <<>>), Written("class", "A", <<Pointer>>),
                                                   Written("parameter", "V", <<>>)}}
FixedTypes == Made(Fixed, Around) \cup {t \in Aliases : ~Dependent(t)} \cup {Written("specialization", "T<int>", <<>>)}
Open == Made(Parameters, Around \ {<<ConstPointer, Pointer>>}) \cup Aliases

Field(t) == [Decl("field", "x", 1) EXCEPT !.type = t]
Method(r, p) == [Decl("method", "run", 1) EXCEPT !.type = r, !.params = p]
ClassesOfTypes ==
    {<<Tagged(Decl("class", "C", 0)), Field(t), Method(t, <<t, IntType>>)>> : t \in FixedTypes}

Template(names) == [Decl("template", "T", 0) EXCEPT !.names = names]
Specialization(arguments) ==
    <<[Decl("registration", "R", 0) EXCEPT !.target = 1, !.known = {"x", "run"}, !.arguments = arguments],
      [Decl("alias", "Type", 1) EXCEPT !.target = 1, !.arguments = arguments]>>
SomeTypes == Made({<<"class", "A">>}, {<<>>, <<Pointer>>, <<Reference>>})
Returned == {Written("parameter", "V", <<>>), Written("parameter", "K", <<Pointer>>), IntType}
TemplatesOfTypes ==
    {<<Template(<<"V">>), Field(t)>> \o Specialization(<<a>>) :
         t \in {o \in Open : o.name # "K"}, a \in Made(Fixed, Around)}
    \cup {<<Template(<<"K", "V">>), Field(t)>> \o Specialization(<<a, b>>) :
         t \in Open, a \in SomeTypes \cup {Value}, b \in {IntType, Value}}
    \cup {<<Template(<<"K", "V">>), Method(r, <<t, u>>)>> \o Specialization(<<a, IntType>>) :
         r \in Returned, t \in Open, u \in {IntType}, a \in SomeTypes}

MCUnits == Small \cup Deep \cup WithAliases \cup ClassesOfTypes \cup TemplatesOfTypes
TwoParameters ==
    {<<Template(<<"K", "V">>), Method(Written("parameter", "V", <<>>), <<Written("parameter", "K", <<>>)>>)>>
       \o Specialization(<<Written("class", "A", <<>>), IntType>>)}
NestedField == {<<Tagged(Decl("class", "A", 0)), Tagged(Decl("class", "B", 1)), Decl("field", "x", 2)>>}
=============================================================================
