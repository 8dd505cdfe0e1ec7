--------------------------- MODULE NumericLocale ---------------------------
(***************************************************************************)
(* The "C" numeric locale of runtime/format.c, which every spelling and    *)
(* reading of a float goes through: made by the first thread that needs    *)
(* it, and shared.  Threads race to make it; making it may fail.  Each     *)
(* access to the shared cell is a step.                                    *)
(***************************************************************************)
EXTENDS Naturals, FiniteSets

CONSTANTS
    Thread,
    Locale,     \* bound: locales that exist at one time
    Null

LocaleAssumption == Null \notin Locale

VARIABLES
    cached,     \* the static cell of try_c_numeric
    pc, call,   \* of each thread: where it is, and "print" or "try"
    held,       \* of each thread: the locale it made or will use
    answer,     \* of each thread: what its last call told the program
    live,       \* the locales that are made and not freed
    running
vars == <<cached, pc, call, held, answer, live, running>>

Answers == {"none", "value", "out_of_memory", "unavailable"}

TypeOK ==
    /\ cached \in Locale \cup {Null} /\ live \in SUBSET Locale /\ running \in BOOLEAN
    /\ pc \in [Thread -> {"idle", "loading", "making", "publishing", "freeing", "using"}]
    /\ call \in [Thread -> {"print", "try"}]
    /\ held \in [Thread -> Locale \cup {Null}] /\ answer \in [Thread -> Answers]

Init ==
    /\ cached = Null /\ live = {} /\ running = TRUE
    /\ pc = [t \in Thread |-> "idle"] /\ call = [t \in Thread |-> "try"]
    /\ held = [t \in Thread |-> Null] /\ answer = [t \in Thread |-> "none"]

At(t, p) == running /\ pc[t] = p
Go(t, p) == pc' = [pc EXCEPT ![t] = p]

-----------------------------------------------------------------------------
\* A finite float is printed (fmt_float, fmt_fixed), or read or spelled by a call
\* that can report a failure (try_parse_f64, try_spell_f64).
Call(t) ==
    /\ At(t, "idle") /\ Go(t, "loading")
    /\ \E c \in {"print", "try"} : call' = [call EXCEPT ![t] = c]
    /\ answer' = [answer EXCEPT ![t] = "none"]
    /\ UNCHANGED <<cached, held, live, running>>

\* try_c_numeric: the locale there is, or one to make.
Load(t) ==
    /\ At(t, "loading")
    /\ held' = [held EXCEPT ![t] = cached]
    /\ Go(t, IF cached # Null THEN "using" ELSE "making")
    /\ UNCHANGED <<cached, call, answer, live, running>>

Make(t) ==
    /\ At(t, "making") /\ Go(t, "publishing")
    /\ \E l \in Locale \ live : held' = [held EXCEPT ![t] = l] /\ live' = live \cup {l}
    /\ UNCHANGED <<cached, call, answer, running>>

\* The C library makes none: a reported failure, or c_numeric's panic, which ends
\* the process.
MakeFails(t) ==
    /\ At(t, "making")
    /\ \/ /\ call[t] = "try" /\ Go(t, "idle")
          /\ \E failure \in {"out_of_memory", "unavailable"} : answer' = [answer EXCEPT ![t] = failure]
          /\ UNCHANGED running
       \/ call[t] = "print" /\ running' = FALSE /\ UNCHANGED <<pc, answer>>
    /\ UNCHANGED <<cached, call, held, live>>

\* The compare-exchange; its loser gets the winner's locale by `expected`, and
\* still has its own to free.
Publish(t) ==
    /\ At(t, "publishing")
    /\ IF cached = Null
       THEN cached' = held[t] /\ Go(t, "using")
       ELSE Go(t, "freeing") /\ UNCHANGED cached
    /\ UNCHANGED <<call, held, answer, live, running>>

\* Mutant of FreeOwn: the loser keeps its own.
FreeOwnNever(t) ==
    /\ At(t, "freeing") /\ Go(t, "using")
    /\ held' = [held EXCEPT ![t] = cached]
    /\ UNCHANGED <<cached, call, answer, live, running>>

\* `expected` was written by the exchange; the cell never changes again.
FreeOwn(t) ==
    /\ At(t, "freeing") /\ Go(t, "using")
    /\ live' = live \ {held[t]} /\ held' = [held EXCEPT ![t] = cached]
    /\ UNCHANGED <<cached, call, answer, running>>

\* The text or the value is made through the locale.
Use(t) ==
    /\ At(t, "using") /\ Go(t, "idle")
    /\ answer' = [answer EXCEPT ![t] = "value"] /\ held' = [held EXCEPT ![t] = Null]
    /\ UNCHANGED <<cached, call, live, running>>

Next == \E t \in Thread :
    Call(t) \/ Load(t) \/ Make(t) \/ MakeFails(t) \/ Publish(t) \/ FreeOwn(t) \/ Use(t)

Spec == Init /\ [][Next]_vars

-----------------------------------------------------------------------------
\* Every thread works with the one cached locale, which is never the null one (the
\* process's own, with its decimal comma) and never a freed one.
UsesCached == \A t \in Thread : pc[t] = "using" => held[t] = cached /\ cached \in live

Makers == {t \in Thread : pc[t] \in {"publishing", "freeing"}}

\* The races leave one locale and leak none: beside the cached one, only those exist
\* that a thread is about to publish or to free, each in one thread's hands.
LocalesAccounted ==
    /\ live = ({cached} \ {Null}) \cup {held[t] : t \in Makers}
    /\ Cardinality(live) = Cardinality({cached} \ {Null}) + Cardinality(Makers)

\* The locale's invariant.
Inv == TypeOK /\ UsesCached /\ LocalesAccounted

=============================================================================
