------------------------------ MODULE DeepEqual ------------------------------
(***************************************************************************)
(* LibUtils.deepEqual (utils/lib-utils.ts): the comparison of two object    *)
(* graphs, circular ones included.                                          *)
(*                                                                         *)
(* The recursion is a stack of frames, one per pair of objects whose keys   *)
(* are being compared, in the order the first object has them, which is any *)
(* order.  visitedPairs is a partial function: an object of the first graph *)
(* keeps the object it was first met with.  Every call that returns false   *)
(* makes its callers return false.                                          *)
(***************************************************************************)
EXTENDS Naturals, Sequences, FiniteSets

CONSTANTS
    Objects,    \* the objects of the heap, of both graphs
    Primitives, \* the values that are not objects: Object.is decides on them
    Keys,       \* the property names
    Absent      \* the object has no such key

ASSUME DisjointAssumption ==
    /\ Objects \intersect Primitives = {}
    /\ Absent \notin Objects \union Primitives

VARIABLES
    heap,       \* the own properties of every object
    left, right,\* the values compared
    stack,      \* the objects being compared, [left, right, keys still to do]
    visited,    \* visitedPairs
    result

comparison == <<heap, left, right, stack, visited, result>>

Values == Objects \union Primitives

KeysOf(o) == {k \in Keys : heap[o][k] # Absent}

NotMet == Absent   \* visitedPairs does not have the object

-----------------------------------------------------------------------------
Heaps == [Objects -> [Keys -> Values \union {Absent}]]

InitWith(heaps) ==
    /\ heap \in heaps
    /\ left \in Values /\ right \in Values
    /\ stack = << >>
    /\ visited = [o \in Objects |-> NotMet]
    /\ result = "called"

ComparisonInit == InitWith(Heaps)

\* One call of deepEqual on v and w; rest is the stack of its callers.
Identical(v, w, rest) ==
    /\ v = w
    /\ stack' = rest /\ result' = "comparing"
    /\ UNCHANGED visited

Unlike(v, w) ==
    /\ v # w
    /\ v \notin Objects \/ w \notin Objects
    /\ result' = "different"
    /\ UNCHANGED <<stack, visited>>

\* The first object was met before: only with the same second one are they equal.
MetBefore_Trusting(v, w, rest) ==
    /\ v # w /\ v \in Objects /\ w \in Objects
    /\ visited[v] # NotMet
    /\ stack' = rest /\ result' = "comparing"
    /\ UNCHANGED visited
MetBefore(v, w, rest) ==
    /\ v # w /\ v \in Objects /\ w \in Objects
    /\ visited[v] # NotMet
    /\ stack' = IF visited[v] = w THEN rest ELSE stack
    /\ result' = IF visited[v] = w THEN "comparing" ELSE "different"
    /\ UNCHANGED visited

\* The code looks at values before it meets a key that is missing, and answers
\* false in the end all the same.
OtherKeys(v, w) ==
    /\ v # w /\ v \in Objects /\ w \in Objects
    /\ visited[v] = NotMet
    /\ KeysOf(v) # KeysOf(w)
    /\ visited' = [visited EXCEPT ![v] = w]
    /\ result' = "different"
    /\ UNCHANGED stack

Enter_Unrecorded(v, w, rest) ==
    /\ v # w /\ v \in Objects /\ w \in Objects
    /\ visited[v] = NotMet
    /\ KeysOf(v) = KeysOf(w)
    /\ stack' = Append(rest, [left |-> v, right |-> w, keys |-> KeysOf(v)])
    /\ result' = "comparing"
    /\ UNCHANGED visited
Enter(v, w, rest) ==
    /\ v # w /\ v \in Objects /\ w \in Objects
    /\ visited[v] = NotMet
    /\ KeysOf(v) = KeysOf(w)
    /\ visited' = [visited EXCEPT ![v] = w]
    /\ stack' = Append(rest, [left |-> v, right |-> w, keys |-> KeysOf(v)])
    /\ result' = "comparing"

Compare(v, w, rest) ==
    /\ \/ Identical(v, w, rest)
       \/ Unlike(v, w)
       \/ MetBefore(v, w, rest)
       \/ OtherKeys(v, w)
       \/ Enter(v, w, rest)
    /\ UNCHANGED <<heap, left, right>>

Start == result = "called" /\ Compare(left, right, << >>)

\* The next key of the innermost pair of objects.
NextKey ==
    /\ result = "comparing" /\ stack # << >>
    /\ \E k \in stack[Len(stack)].keys :
           Compare(heap[stack[Len(stack)].left][k], heap[stack[Len(stack)].right][k],
                   [stack EXCEPT ![Len(stack)] =
                        [left |-> @.left, right |-> @.right, keys |-> @.keys \ {k}]])

\* No key is left: the call returns true to its caller, or to the program.
ReturnTrue ==
    /\ result = "comparing" /\ stack # << >> /\ stack[Len(stack)].keys = {}
    /\ stack' = SubSeq(stack, 1, Len(stack) - 1)
    /\ UNCHANGED <<heap, left, right, visited, result>>

Finish ==
    /\ result = "comparing" /\ stack = << >>
    /\ result' = "equal"
    /\ UNCHANGED <<heap, left, right, stack, visited>>

ComparisonNext == Start \/ NextKey \/ ReturnTrue \/ Finish

ComparisonSpec == ComparisonInit /\ [][ComparisonNext]_comparison /\ WF_comparison(ComparisonNext)

-----------------------------------------------------------------------------
(* What the answer should be. *)

\* Two values that need no further look: identical, or met as a pair.
Alike(v, w) == v = w \/ (v \in Objects /\ w \in Objects /\ visited[v] = w)

Bisimilar(v, w) ==
    LET both == Objects \X Objects
        alike(pairs, x, y) == x = y \/ <<x, y>> \in pairs
        kept(pairs) == {p \in pairs : /\ KeysOf(p[1]) = KeysOf(p[2])
                                      /\ \A k \in KeysOf(p[1]) :
                                            alike(pairs, heap[p[1]][k], heap[p[2]][k])}
        refined[n \in Nat] == IF n = 0 THEN both ELSE kept(refined[n - 1])
    IN  alike(refined[Cardinality(Objects)], v, w)

Frames == [left : Objects, right : Objects, keys : SUBSET Keys]

\* The comparison's state has its shape, and it keeps no frame once it has
\* answered true (LibUtils.deepEqual).
ComparisonOK ==
    /\ heap \in Heaps
    /\ left \in Values /\ right \in Values
    /\ stack \in Seq(Frames)
    /\ visited \in [Objects -> Objects \union {NotMet}]
    /\ result \in {"called", "comparing", "equal", "different"}
    /\ result = "equal" => stack = << >>

\* No object of the first graph is entered again while it is being compared,
\* so the recursion ends on circular graphs (visitedPairs of deepEqual).
EnteredOnce ==
    \A i, j \in 1 .. Len(stack) : stack[i].left = stack[j].left => i = j

\* When deepEqual answers true, the pairs it visited prove it right: the two
\* values are identical or one such pair, and the objects of each pair have the
\* same keys, holding identical values or another such pair.
EqualIsProved ==
    result = "equal" =>
        /\ Alike(left, right)
        /\ \A o \in Objects : visited[o] # NotMet =>
              /\ KeysOf(o) = KeysOf(visited[o])
              /\ \A k \in KeysOf(o) : Alike(heap[o][k], heap[visited[o]][k])

\* When deepEqual answers false, the two values do differ somewhere: no graph is
\* taken for another only because an object is met twice.
DifferentIsDeserved == result = "different" => ~Bisimilar(left, right)

\* Every comparison ends, whatever circles the graphs have.
Answers == <>(result \in {"equal", "different"})

=============================================================================
