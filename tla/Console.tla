------------------------------ MODULE Console ------------------------------
(***************************************************************************)
(* printf() and panic() of printf.c: threads that print lines, character   *)
(* by character, under pr.lock, and one that panics, which prints without  *)
(* the lock because its holder may never give it up.  consputc() is not in *)
(* the repository: printf.c says that panicked freezes the output.         *)
(***************************************************************************)
EXTENDS Integers

CONSTANTS
  Threads,    \* those that print
  NoThread,   \* holder of the free lock
  LineLength  \* characters of a message

VARIABLES
  locking, prlock,  \* pr.locking, and the thread that holds pr.lock
  panicked,
  at,               \* where a thread is in printf() or panic()
  locked, left,     \*   its local `locking', the characters it still prints
  panicking         \* the threads that have called panic()

consoleVars == <<locking, prlock, panicked, at, locked, left, panicking>>

\* After printfinit().
Init ==
  /\ locking   = TRUE
  /\ prlock    = NoThread
  /\ panicked  = FALSE
  /\ at        = [t \in Threads |-> "quiet"]
  /\ locked    = [t \in Threads |-> FALSE]
  /\ left      = [t \in Threads |-> 0]
  /\ panicking = {}

Goto(t, l) == at' = [at EXCEPT ![t] = l]

\* printf() reads pr.locking, before it has any lock.
Begin(t) ==
  /\ locked' = [locked EXCEPT ![t] = locking]
  /\ left'   = [left EXCEPT ![t] = LineLength]
  /\ Goto(t, IF locking THEN "acquire" ELSE "print")
  /\ UNCHANGED <<locking, prlock, panicked, panicking>>

\* A thread calls printf().
PrintfStart(t) == at[t] = "quiet" /\ Begin(t)

\* Mutant of PrintfAcquire: the lock is not waited for.
PrintfNoWait(t) ==
  /\ at[t] = "acquire"
  /\ prlock' = t
  /\ Goto(t, "print")
  /\ UNCHANGED <<locking, panicked, locked, left, panicking>>

PrintfAcquire(t) ==
  /\ at[t] = "acquire"
  /\ prlock = NoThread
  /\ prlock' = t
  /\ Goto(t, "print")
  /\ UNCHANGED <<locking, panicked, locked, left, panicking>>

\* Mutant of PrintChar: one character too many.
PrintCharPastEnd(t) ==
  /\ at[t] = "print"
  /\ left[t] >= 0
  /\ ~ panicked
  /\ left' = [left EXCEPT ![t] = @ - 1]
  /\ UNCHANGED <<locking, prlock, panicked, at, locked, panicking>>

\* consputc(): nothing more is put out once panicked is set, and its caller
\* goes no further.
PrintChar(t) ==
  /\ at[t] = "print"
  /\ left[t] > 0
  /\ ~ panicked
  /\ left' = [left EXCEPT ![t] = @ - 1]
  /\ UNCHANGED <<locking, prlock, panicked, at, locked, panicking>>

\* printf() returns to a caller that is not panic().
PrintfEnd(t) ==
  /\ at[t] = "print"
  /\ left[t] = 0
  /\ t \notin panicking
  /\ prlock' = IF locked[t] THEN NoThread ELSE prlock
  /\ locked' = [locked EXCEPT ![t] = FALSE]
  /\ Goto(t, "quiet")
  /\ UNCHANGED <<locking, panicked, left, panicking>>

-----------------------------------------------------------------------------
\* Mutant of Panic: pr.locking stays set.
PanicKeepsLocking(t) ==
  /\ t \notin panicking
  /\ panicking' = panicking \cup {t}
  /\ Goto(t, "panic")
  /\ UNCHANGED <<locking, prlock, panicked, locked, left>>

\* panic() switches the locking off, for good.
Panic(t) ==
  /\ t \notin panicking
  /\ panicking' = panicking \cup {t}
  /\ locking' = FALSE
  /\ Goto(t, "panic")
  /\ UNCHANGED <<prlock, panicked, locked, left>>

\* printf() with a null format panics, with pr.lock.
PanicNullFmt(t) ==
  /\ at[t] = "print"
  /\ left[t] = LineLength
  /\ Panic(t)

\* panic()'s messages: one here.
PanicPrint(t) == at[t] = "panic" /\ Begin(t)

\* Then it freezes the output.  backtrace() would print more; nothing comes
\* of it now, and panic() does not return.
PanicEnd(t) ==
  /\ at[t] = "print"
  /\ left[t] = 0
  /\ t \in panicking
  /\ panicked' = TRUE
  /\ Goto(t, "halted")
  /\ UNCHANGED <<locking, prlock, locked, left, panicking>>

-----------------------------------------------------------------------------
\* A thread goes on in printf() or panic().
Step(t) ==
  \/ PrintfAcquire(t) \/ PrintChar(t) \/ PrintfEnd(t)
  \/ PanicPrint(t) \/ PanicEnd(t)

-----------------------------------------------------------------------------
\* Properties

\* Every variable keeps its type.
ConsoleTypeOK ==
  /\ locking \in BOOLEAN /\ panicked \in BOOLEAN
  /\ prlock \in Threads \cup {NoThread}
  /\ at \in [Threads -> {"quiet", "acquire", "print", "panic", "halted"}]
  /\ locked \in [Threads -> BOOLEAN]
  /\ left \in [Threads -> 0 .. LineLength]
  /\ panicking \subseteq Threads

InLine(t) == at[t] = "print" /\ left[t] \in 1 .. LineLength - 1

\* "lock to avoid interleaving concurrent printf's": one line is printed at
\* a time until somebody panics, and then still no two of those that had
\* been called before are mixed.
LinesWhole ==
  \A t, u \in Threads :
    t # u /\ InLine(t) /\ InLine(u) => panicking # {} /\ ~ (locked[t] /\ locked[u])

\* A panic is heard: the thread that panics never waits for pr.lock, whoever
\* holds it, itself or a thread that will never run again.
PanicNotBlocked == \A t \in panicking : at[t] # "acquire"
=============================================================================
