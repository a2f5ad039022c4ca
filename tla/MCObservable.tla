---------------------------- MODULE MCObservable ----------------------------
(* Observable in each of its forms.  Threads t1 and t2 call whatever the    *)
(* form lets them; with copy-and-swap only t1 changes the observers.        *)
EXTENDS Observable, FiniteSets

CONSTANTS t1, t2, o1, o2

Plain == [autoLock |-> FALSE, cns |-> TRUE, modifiers |-> {t1}, emitters |-> {t1}]
Locking == [autoLock |-> TRUE, cns |-> FALSE,
            modifiers |-> Threads, emitters |-> Threads]
Swapping == [autoLock |-> TRUE, cns |-> TRUE,
             modifiers |-> {t1}, emitters |-> Threads]
SwappingByAll == [Swapping EXCEPT !.modifiers = Threads]

SafeForms == {Plain, Locking, Swapping}
SwapForms == {SwappingByAll}
=============================================================================
