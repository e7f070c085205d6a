----------------------------- MODULE MCScanGraph -----------------------------
(* Small graphs of containers for ScanGraph. *)
EXTENDS ScanGraph

Containers(size, kinds, maxExtras) ==
    LET items == (1..size) \cup {Secret}
        upto(n) == UNION {[1..m -> items] : m \in 0..n}
        Container(kind, kids, extras) == [kind |-> kind, kids |-> kids, extras |-> extras]
    IN  {Container(k, s, <<>>) : k \in kinds, s \in upto(2)}
            \cup {Container("object", s, e) : s \in upto(2), e \in upto(maxExtras)}

MCKeys == <<"a", "b", "c">>

Held(c) == Range(c.kids) \cup Range(c.extras)

Secrets(g) == Cardinality({<<n, i>> \in (DOMAIN g) \X (1..2) :
                               i \in DOMAIN g[n].kids /\ g[n].kids[i] = Secret})
                  + Cardinality({n \in DOMAIN g : g[n].extras = <<Secret>>})

Edges(g) == {e \in (DOMAIN g) \X (DOMAIN g) : e[2] \in Held(g[e[1]])}
TupleEdges(g) == {e \in Edges(g) : g[e[1]].kind = "tuple" /\ g[e[2]].kind = "tuple"}
Reaches(edges, from, to) ==
    to \in Closure(LAMBDA S : {e[2] : e \in {d \in edges : d[1] \in S}}, from, Cardinality(edges))

\* Python builds a tuple when its items exist: a cycle leads through something that can be assigned to.
Constructible(g) == \A e \in TupleEdges(g) : ~Reaches(TupleEdges(g), {e[2]}, e[1])

\* The graphs whose containers are numbered in the order in which they are reached, so that no two
\* differ in names alone.
GraphsOf(size, kinds, maxExtras, maxSecrets) ==
    LET grown[n \in 0..size] ==
            IF n = 0 THEN {<<>>}
            ELSE {Append(p[1], p[2]) : p \in
                    {q \in grown[n - 1] \X Containers(size, kinds, maxExtras) :
                        n = 1 \/ \E i \in DOMAIN q[1] : n \in Held(q[1][i])}}
    IN  {g \in grown[size] : Secrets(g) \in 1..maxSecrets /\ Constructible(g)}

\* What the code does not keep up with: a cycle through a value under a key that is no string, and a
\* tuple that holds a tuple it is itself reached from.
CycleThroughExtras(g) == ~ExtrasLeadAway(g)
TupleInItsOwnTuple(g) == \E e \in TupleEdges(g) : Reaches(Edges(g), {e[2]}, e[1])

PlainGraphs ==
    {g \in GraphsOf(2, Kinds, 1, 2) \cup GraphsOf(3, {"dict", "tuple", "object"}, 0, 1) :
        ~CycleThroughExtras(g) /\ ~TupleInItsOwnTuple(g)}

Conf(allow, deny, redact, min) ==
    [allow |-> allow, deny |-> deny, redact |-> redact, block |-> TRUE, min |-> min]

MCConfigs == {Conf({}, {}, TRUE, 2),
              Conf({}, {<<"a">>}, TRUE, 1),
              Conf({<<"b", "a">>}, {}, TRUE, 1),
              Conf({}, {<<"a", "b">>}, FALSE, 1)}
=============================================================================
