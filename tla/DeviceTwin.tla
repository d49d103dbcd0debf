----------------------------- MODULE DeviceTwin ------------------------------
(***************************************************************************)
(* The simulated sensor (src/device-twin.ts): a Durable Object whose alarm *)
(* chain produces one numbered reading per tick, and which seeds a reading *)
(* when it is asked before the first tick.  Input gates run its methods    *)
(* one at a time; its instance can be evicted between any two of them,     *)
(* while its storage and its alarm stay.                                   *)
(***************************************************************************)
EXTENDS Naturals, Sequences

CONSTANTS HistoryMax,    \* readings kept (50 in the code)
          MaxSeq,        \* bound: ticks beyond this number are not taken
          TwinFaultSets  \* the sets of faults to consider

TwinFaultKinds == {"tick",         \* a storage operation of tick
                   "setAlarm",     \* setAlarm in alarm(), until the runtime gives up
                   "constructor",  \* getAlarm or setAlarm in the constructor
                   "seed"}         \* the put of getLatestReading

ASSUME DeviceTwinAssumption ==
    /\ HistoryMax \in Nat \ {0}
    /\ MaxSeq \in Nat
    /\ TwinFaultSets \subseteq SUBSET TwinFaultKinds

\* Two readings that were generated apart differ, whatever their number:
\* temperature, humidity and ts are drawn anew each time.
Reading == [seq : Nat, drawn : Nat]
NoReading == [seq |-> 0, drawn |-> 0]    \* storage has no "latest"; drawn starts at 1

VARIABLES twinFaults,  \* what may reject in this behaviour: fixed at the start
          up,          \* an instance is in memory
          armed,       \* an alarm is set
          latest,      \* storage "latest", or NoReading
          seq,         \* storage "seq"; absent is read as 0
          history,     \* storage "history", newest first
          drawn,       \* readings generated and stored so far
          published    \* history: readings stored or handed out

twinVars == <<twinFaults, up, armed, latest, seq, history, drawn, published>>
store == <<latest, seq, history>>

TwinTypeOK == /\ twinFaults \in TwinFaultSets
              /\ up \in BOOLEAN
              /\ armed \in BOOLEAN
              /\ latest \in Reading
              /\ seq \in Nat
              /\ history \in Seq(Reading)
              /\ Len(history) <= HistoryMax
              /\ drawn \in Nat
              /\ published \subseteq Reading

TwinInit == /\ twinFaults \in TwinFaultSets
            /\ up = FALSE
            /\ armed = FALSE
            /\ latest = NoReading
            /\ seq = 0
            /\ history = << >>
            /\ drawn = 0
            /\ published = {}

\* The first request to an object that is not in memory, or its alarm falling
\* due, constructs an instance; a rejection in the constructor is swallowed.
Construct == /\ ~up
             /\ up' = TRUE
             /\ \/ armed' = TRUE
                \/ "constructor" \in twinFaults /\ UNCHANGED armed
             /\ UNCHANGED <<store, drawn, published>>

\* The runtime drops an idle or failed instance.
Evict == /\ up
         /\ up' = FALSE
         /\ UNCHANGED <<armed, store, drawn, published>>

GenerateReading(n) == [seq |-> n, drawn |-> drawn + 1]

\* Ring buffer, newest first.
Push(reading) == LET pushed == <<reading>> \o history
                 IN SubSeq(pushed, 1, IF Len(pushed) > HistoryMax THEN HistoryMax
                                                                  ELSE Len(pushed))

\* tick: read seq and history, and put the three keys at once.
TwinTick == LET reading == GenerateReading(seq + 1)
            IN /\ latest' = reading
               /\ seq' = seq + 1
               /\ history' = Push(reading)
               /\ drawn' = drawn + 1
               /\ published' = published \cup {reading}

\* alarm(): the next alarm is set before the tick.
TwinAlarm == /\ up /\ armed
             /\ seq < MaxSeq
             /\ armed' = TRUE
             /\ TwinTick
             /\ UNCHANGED up

\* Bug: alarm() ticks first, so that a tick that rejects sets no alarm.
TickRejects_NoNextAlarm == /\ "tick" \in twinFaults
                           /\ up /\ armed
                           /\ armed' = FALSE
                           /\ UNCHANGED <<up, store, drawn, published>>

\* The tick rejects after setAlarm: the alarm that was set, or the runtime's
\* retry of this one, is pending.  A failed write costs the instance as well.
TickRejects == /\ "tick" \in twinFaults
               /\ up /\ armed
               /\ armed' = TRUE
               /\ up' \in BOOLEAN
               /\ UNCHANGED <<store, drawn, published>>

\* setAlarm itself rejects: the runtime retries alarm(), and in the end may
\* give up on it.
SetAlarmRejects == /\ "setAlarm" \in twinFaults
                   /\ up /\ armed
                   /\ armed' = FALSE
                   /\ UNCHANGED <<up, store, drawn, published>>

\* Bug: the seed is handed out "without persisting" anything.
GetLatestReading_NotStored ==
    /\ up
    /\ published' = published \cup {IF latest = NoReading THEN GenerateReading(0) ELSE latest}
    /\ drawn' = IF latest = NoReading THEN drawn + 1 ELSE drawn
    /\ UNCHANGED <<up, armed, store>>

\* Bug: the seed is stored without a history.
GetLatestReading_NoHistory ==
    /\ up /\ latest = NoReading
    /\ latest' = GenerateReading(0)
    /\ seq' = 0
    /\ drawn' = drawn + 1
    /\ published' = published \cup {latest'}
    /\ UNCHANGED <<up, armed, history>>

\* getLatestReading: the stored reading, or a seed that is stored first.
GetLatestReading ==
    /\ up
    /\ \/ /\ latest # NoReading
          /\ published' = published \cup {latest}
          /\ UNCHANGED <<store, drawn>>
       \/ /\ latest = NoReading
          /\ LET reading == GenerateReading(0)
             IN /\ latest' = reading
                /\ seq' = 0
                /\ history' = <<reading>>
                /\ drawn' = drawn + 1
                /\ published' = published \cup {reading}
    /\ UNCHANGED <<up, armed>>

\* The seed's put rejects: the caller gets device_twin_error, not the reading,
\* and the instance is lost.
SeedRejects == /\ "seed" \in twinFaults
               /\ up /\ latest = NoReading
               /\ up' = FALSE
               /\ UNCHANGED <<armed, store, drawn, published>>

TwinNext == /\ \/ Construct \/ Evict \/ TwinAlarm \/ TickRejects \/ SetAlarmRejects
               \/ GetLatestReading \/ SeedRejects
            /\ UNCHANGED twinFaults

TwinSpec == TwinInit /\ [][TwinNext]_twinVars

\* A due alarm is delivered, to a new instance if need be, and a tick that is
\* tried again and again succeeds in the end.  Nobody has to ask for readings.
TwinFairSpec == /\ TwinSpec
                /\ WF_twinVars(Construct /\ armed /\ UNCHANGED twinFaults)
                /\ SF_twinVars(TwinAlarm /\ UNCHANGED twinFaults)

-----------------------------------------------------------------------------
\* getHistory: newest first, clamped to [1, HistoryMax].
GetHistory(limit) ==
    LET clamped == IF limit < 1 THEN 1 ELSE IF limit > HistoryMax THEN HistoryMax ELSE limit
    IN SubSeq(history, 1, IF clamped < Len(history) THEN clamped ELSE Len(history))

\* The three keys agree after every step that may fail: the newest entry of the
\* history is the latest reading and carries the current number, and going
\* back in the history the numbers fall by one, without gap or repeat.
HistoryIsUnbroken ==
    /\ latest = NoReading <=> history = << >>
    /\ history # << >> => history[1] = latest
    /\ \A i \in 1 .. Len(history) : history[i].seq + i = seq + 1
    /\ \A limit \in 0 .. HistoryMax + 1 :
          history # << >> => GetHistory(limit) # << >> /\ GetHistory(limit)[1] = latest

\* types.ts:11 "Unique ... never repeats": two readings a buyer or the storage
\* ever saw under one number are the same reading.
SeqIsUnique == \A a, b \in published : a.seq = b.seq => a = b

\* types.ts:11 "monotonic": the number of the stored reading only grows.
SeqOnlyGrows ==
    [][seq' >= seq /\ (latest' # latest /\ latest # NoReading => seq' = seq + 1)]_twinVars

\* device-twin.ts:11-12 "one failure cannot permanently kill the device": as
\* long as setAlarm itself works, an instance in memory always has an alarm.
ChainIsAlive == twinFaults \cap {"setAlarm", "constructor"} = {} => (up => armed)

\* ... and once it has run, the device goes on ticking, through failing ticks
\* and evictions.
KeepsTicking == (armed /\ "setAlarm" \notin twinFaults) ~> seq = MaxSeq
=============================================================================
