---------------------------- MODULE DirectReplay -----------------------------
(***************************************************************************)
(* What the replay cache promises: there are no cached states here.  Every *)
(* event looks at the function as it is, and the references it records are *)
(* those of what it sees.  Only two things remain of the cache: which      *)
(* function it is about, and whether that one has changed behind its back, *)
(* in which case nothing is promised until it is built again.              *)
(***************************************************************************)
EXTENDS FunctionCode

VARIABLES
    key,    \* the bounds of the function that was looked at last
    stale,  \* it has changed since it was built, in a way no event tells
    seen    \* what the last event saw of the rows before its own

directVars == <<memory, xrefs, funcs, key, stale, seen>>

NoKey == [valid |-> FALSE, start |-> None, end |-> None]

KeyOf(f) == [valid |-> TRUE, start |-> f.start, end |-> f.end]

InBody(f, c) == f.start <= c /\ c < f.end

(* A change of the function leaves no trace, but what is built is built    *)
(* once: for another function, and for a row outside the body.             *)
MayBuild(f, c, built) ==
    /\ key # KeyOf(f) => built
    /\ ~stale => (built <=> key # KeyOf(f) \/ ~InBody(f, c))

(* What an event at c sees, and whether it knows the register of its row.  *)
Consult(c, built, known) ==
    \/ /\ FunctionsOf(c) = {}
       /\ ~built /\ ~known
       /\ seen' = NoRows
       /\ key' = key
    \/ \E f \in FunctionsOf(c) :
          /\ MayBuild(f, c, built)
          /\ key' = KeyOf(f)
          /\ IF InBody(f, c) /\ (built \/ ~stale)
             THEN /\ seen' = StraightLineBefore(f, c)
                  /\ known <=> KnowsRegister(StraightLineBefore(f, c))
             ELSE seen' = NoRows

Emu(c) ==
    /\ Decodes(c)
    /\ \E built \in BOOLEAN, known \in BOOLEAN :
         /\ Consult(c, built, known)
         /\ LET refs == BranchRefs(c) \cup (IF known THEN IndirectTarget(c) ELSE {})
            IN  /\ xrefs' = xrefs \cup refs
                /\ stale' = ((stale /\ ~built) \/ Unforeseen(refs \ xrefs, key') # {})
    /\ UNCHANGED <<memory, funcs>>

Out(c) ==
    /\ Decodes(c)
    /\ \E built \in BOOLEAN, known \in BOOLEAN :
         Consult(c, built, known) /\ stale' = (stale /\ ~built)
    /\ UNCHANGED <<memory, xrefs, funcs>>

Undefine(c) ==
    LET gone == {x \in xrefs : x[1] = c}
    IN  /\ xrefs' = xrefs \ gone
        /\ stale' = (stale \/ Unforeseen(gone, key) # {})
        /\ seen' = NoRows
        /\ UNCHANGED <<memory, funcs, key>>

Patch(b) ==
    /\ \E new \in Contents : memory' = [memory EXCEPT ![b] = new]
    /\ stale' = (stale \/ \E c \in {2 * b, 2 * b + 1} : Cached(key, c))
    /\ seen' = NoRows
    /\ UNCHANGED <<xrefs, funcs, key>>

Relayout ==
    /\ funcs' \in Layouts
    /\ seen' = NoRows
    /\ UNCHANGED <<memory, xrefs, key, stale>>

Forget ==
    /\ key' = NoKey
    /\ stale' = FALSE
    /\ seen' = NoRows
    /\ UNCHANGED <<memory, xrefs, funcs>>

Init ==
    /\ memory \in Images /\ xrefs = {} /\ funcs \in Layouts
    /\ key = NoKey /\ ~stale /\ seen = NoRows

Next ==
    \/ \E c \in Cell : Emu(c) \/ Out(c) \/ Undefine(c)
    \/ \E b \in Bundle : Patch(b)
    \/ Relayout
    \/ Forget

Spec == Init /\ [][Next]_directVars
=============================================================================
