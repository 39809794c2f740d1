------------------------------ MODULE IOSubsys ------------------------------
(***************************************************************************)
(* The iosubsys Python module: Open() builds a talloc'd IOOptions list     *)
(* from a dict of strings and constructs the named IOSource driver, which *)
(* then owns the options (talloc_steal); the driver is handed to Python as *)
(* a CObject whose destructor is talloc_free.  read_random() reads len     *)
(* bytes at an offset through the driver and shrinks the result to what   *)
(* the driver returned.                                                    *)
(*                                                                         *)
(* Each Open() call takes the lowest slot holding nothing live;           *)
(* mem[<<kind, slot>>] is the state of the options list ("opts") or the   *)
(* driver ("drv") allocated there.                                         *)
(***************************************************************************)
EXTENDS Integers, Sequences

CONSTANTS
    Drivers,        \* iodriver names strcasecmp matches against a driver
    DriverArgs,     \* iodriver arguments: names, NotString, or Missing
    OptionArgs,     \* opts arguments: Missing, or a sequence telling for each
                    \* key/value pair whether both are strings
    ConstructFails, \* a driver constructor may return NULL
    SourceSize,     \* most bytes a driver's read_random reports
    LenArgs,        \* len arguments of read_random
    IntWidth,       \* bits of uint32_t, scaled so TLC's integers hold 2^IntWidth
    MaxLive,        \* bound on the Open() allocations tracked at once
    Missing,        \* model value: an argument left out
    NotString       \* model value: an iodriver that is not a string

Slots == 1..MaxLive
Kinds == {"opts", "drv"}

VARIABLES
    mem,        \* [Kinds \X Slots -> {"none", "live", "freed"}]
    held,       \* slots whose driver CObject the caller holds
    crashed,    \* the process died in strcasecmp(NULL, ...)
    last        \* the last read_random: len, driver's return, bytes returned

vars == <<mem, held, crashed, last>>

-----------------------------------------------------------------------------
(* Open(iodriver, opts).                                                   *)

\* Every key and value of the dict is a string (PyString_AsString
\* returns non-NULL for both).
AllText(o) == \A i \in DOMAIN o : o[i]

\* The exit Open() takes, in the order of its checks: no iodriver (57),
\* no opts (63), a non-string option (78), drivername NULL reaching
\* strcasecmp (87), no matching name (96), a NULL driver (100), success.
Exit(d, o, built) ==
    CASE d = Missing                -> "NoDriverArg"
      [] o = Missing                -> "NoOptions"
      [] ~AllText(o)                -> "InvalidOption"
      [] d = NotString              -> "Crash"
      [] d \notin Drivers           -> "KeyError"
      [] ~built                     -> "ConstructFailed"
      [] OTHER                      -> "Opened"

\* Mutant: no talloc_free(options) when the constructor fails.
OptionsAfterKeepingFailed(e) ==
    CASE e \in {"NoDriverArg", "NoOptions"} -> "none"
      [] e = "InvalidOption"               -> "freed"
      [] OTHER                             -> "live"

\* The options list after each exit: never built before line 67, freed
\* at 79 and 101, and left allocated by the crash, the KeyError return,
\* and success (where the driver owns it).
OptionsAfter(e) ==
    CASE e \in {"NoDriverArg", "NoOptions"}      -> "none"
      [] e \in {"InvalidOption", "ConstructFailed"} -> "freed"
      [] OTHER                                  -> "live"

\* A slot holding nothing live: where the next Open() allocates.
FreeSlots == {s \in Slots : \A k \in Kinds : mem[<<k, s>>] # "live"}

Open(d, o) ==
    /\ ~crashed
    /\ FreeSlots # {}
    /\ LET s == CHOOSE x \in FreeSlots : \A y \in FreeSlots : x <= y IN
       \E built \in IF ConstructFails THEN BOOLEAN ELSE {TRUE} :
          LET e == Exit(d, o, built) IN
          /\ mem' = [mem EXCEPT ![<<"opts", s>>] = OptionsAfter(e),
                                ![<<"drv", s>>] = IF e = "Opened" THEN "live" ELSE "none"]
          /\ held' = IF e = "Opened" THEN held \cup {s} ELSE held
          /\ crashed' = (e = "Crash")
    /\ UNCHANGED last

\* The caller drops the CObject: its destructor talloc_free(driver) frees
\* the options the driver stole with it.
Drop(s) ==
    /\ ~crashed
    /\ s \in held
    /\ held' = held \ {s}
    /\ mem' = [mem EXCEPT ![<<"opts", s>>] = "freed", ![<<"drv", s>>] = "freed"]
    /\ UNCHANGED <<crashed, last>>

-----------------------------------------------------------------------------
(* read_random(driver, len, offset).  The offset only reaches the driver. *)

\* "l" stores a long into the uint32_t len: its low 32 bits.
ParsedLen(a) == a % (2 ^ IntWidth)

\* if(length < len) _PyString_Resize(&result, length): the int length is
\* converted to uint32_t for the comparison.
ResultLen(len, n) == IF n % (2 ^ IntWidth) < len THEN n ELSE len

\* The driver's read_random either raises (IOError, the result buffer
\* released) or reports some count up to what its source holds: short at
\* the end of the source, or more than len.
ReadRandom(s, a) ==
    /\ ~crashed
    /\ s \in held
    /\ LET len == ParsedLen(a) IN
       \/ last' = [len |-> len, n |-> -1, returned |-> 0, ok |-> FALSE]
       \/ \E n \in 0..SourceSize :
             last' = [len |-> len, n |-> n, returned |-> ResultLen(len, n), ok |-> TRUE]
    /\ UNCHANGED <<mem, held, crashed>>

-----------------------------------------------------------------------------

NoRead == [len |-> 0, n |-> 0, returned |-> 0, ok |-> FALSE]

Init ==
    /\ mem = [k \in Kinds \X Slots |-> "none"]
    /\ held = {}
    /\ crashed = FALSE
    /\ last = NoRead

Next ==
    \/ \E d \in DriverArgs, o \in OptionArgs : Open(d, o)
    \/ \E s \in Slots : Drop(s)
    \/ \E s \in Slots, a \in LenArgs : ReadRandom(s, a)

Spec == Init /\ [][Next]_vars

-----------------------------------------------------------------------------
(* Properties.                                                             *)

\* Every options list Open() allocated is, at all times, either freed or
\* owned by the live driver it was stolen to: no exit of Open() (invalid
\* option, unknown driver, failed construction) leaves it behind, and the
\* driver's destructor takes it along (spec 4.1: release on every exit
\* path, including failed construction).
OptionsOwned ==
    \A s \in Slots : mem[<<"opts", s>>] = "live" => mem[<<"drv", s>>] = "live"

=============================================================================
