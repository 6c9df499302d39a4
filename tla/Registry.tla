------------------------------- MODULE Registry -------------------------------
(***************************************************************************)
(* What the registration tree promises to the rest of the agent: a set of  *)
(* regions, each a name with a priority and the session that registered    *)
(* it, and for every object the registration that is asked for it.         *)
(***************************************************************************)
EXTENDS Naturals, Sequences, SequencesExt

CONSTANTS
    Region,   \* names that may be registered, as sequences of numbers
    Priority, \* smaller numbers are preferred
    Session,  \* who registers
    Object,   \* names that are looked up
    Root      \* the registration that answers what nobody registered

VARIABLE regs

Covers(r, o) == IsPrefix(r.name, o)

\* A longer name wins, and of two equal names the smaller priority.
Better(r, s) == \/ Len(r.name) > Len(s.name)
                \/ r.name = s.name /\ r.prio < s.prio

Serves(o) ==
    LET covering == {r \in regs : Covers(r, o)}
    IN IF covering = {} THEN Root
       ELSE CHOOSE r \in covering : \A s \in covering \ {r} : Better(r, s)

RegistryInit == regs = {}

\* A region has one registration for each priority.
RegistryRegister(n, p, s) ==
    /\ \A r \in regs : <<r.name, r.prio>> # <<n, p>>
    /\ regs' = regs \cup {[name |-> n, prio |-> p, sess |-> s]}

RegistryUnregister(n, p) == regs' = {r \in regs : <<r.name, r.prio>> # <<n, p>>}

RegistryClose(S) == regs' = {r \in regs : r.sess \notin S}

RegistryNext ==
    \/ \E n \in Region, p \in Priority :
          RegistryUnregister(n, p) \/ \E s \in Session : RegistryRegister(n, p, s)
    \/ \E S \in SUBSET Session : RegistryClose(S)

RegistrySpec == RegistryInit /\ [][RegistryNext]_regs
=============================================================================
