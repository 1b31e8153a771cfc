--------------------------- MODULE MessageIntake ---------------------------
(***************************************************************************)
(* How a Discord message is taken in and answered (index.ts): the claim of *)
(* the message in SQLite (database/message-processing-repo.ts), the set    *)
(* processedMessages, the main listener and the listener of the builder    *)
(* threads, the credits of one user (ai/usage-manager.ts) and that user's  *)
(* conversation (ai/memory.ts, ai/context-compression.ts).                 *)
(*                                                                         *)
(* The gateway may deliver a message any number of times.  A step is what  *)
(* the event loop runs between two awaits; for one delivery the builder    *)
(* listener runs in the same step as the beginning of the main one.  Time  *)
(* passes in units of thirty seconds: the set lives one, a lease two.      *)
(* An answer costs credits of the day, more of them when the message is    *)
(* long; the limits of the month and of the guild work alike.  The user    *)
(* may have started a rivalry with another bot, whose messages are         *)
(* answered at the user's expense.  The /ask command, which checks and     *)
(* counts credits in the same way, is left out.                            *)
(***************************************************************************)
EXTENDS Integers, Sequences, FiniteSets

CONSTANTS
  Messages,
  ThreadMessages,   \* those sent in a thread that can have a builder session
  BotMessages,      \* those of the opponent in a rivalry the user started
  LongMessages,     \* those of more than 2000 characters
  Runs,             \* runs of the main listener that can be under way
  NoMessage,
  LeaseTime,        \* leaseDurationMs, in units of thirty seconds
  DailyLimit,       \* credits a day
  LongCost,         \* costs.long: the credits of an answer to a long message
  MaxContext,       \* config.ai.maxContextMessages, at least 2
  MinMessages,      \* a shorter conversation is not compressed
  KeepRecent,       \* turns that compression leaves alone
  MaxTurns          \* bound: answers to the opponent in a day

ASSUME MessagesAssumption ==
  /\ ThreadMessages \cup BotMessages \cup LongMessages \subseteq Messages
  /\ NoMessage \notin Messages
ASSUME RunsAssumption == IsFiniteSet(Runs)
ASSUME LimitsAssumption ==
  /\ LeaseTime \in Nat \ {0} /\ MaxContext \in Nat \ {0, 1}
  /\ LongCost \in Nat \ {0} /\ DailyLimit \in Nat /\ LongCost <= DailyLimit
ASSUME CompressionAssumption ==
  KeepRecent \in Nat \ {0} /\ MinMessages \in Nat /\ KeepRecent < MinMessages
ASSUME MaxTurnsAssumption == MaxTurns \in Nat

VARIABLES
  rows,       \* message_processing: state and what is left of the lease
  seen,       \* processedMessages
  run,        \* run[r] : what a run of the main listener waits for
  usage,      \* UsageManager in memory: credits used, cool-down, writePending
  stored,     \* credits in usage-data.json
  chat,       \* the conversation in memory
  chatFile,   \* the conversation in SQLite
  billed,     \* history: answers to the opponent counted today
  current,    \* history: messages handled in their present lease, or settled
  again,      \* history: messages handled once more without a new lease
  unwritten   \* history: the last write of usage-data.json failed

history == <<billed, current, again>>
vars    == <<rows, seen, run, usage, stored, chat, chatFile, history, unwritten>>

\* FAILED stands for FAILED_RETRYABLE and FAILED_FINAL, which nothing tells apart:
\* no row in either state is claimed again.
Settled == {"COMPLETED", "FAILED"}

Row  == [state : {"none", "PROCESSING"} \cup Settled, lease : 0..LeaseTime]
Turn == [role : {"user", "assistant", "system"}, msg : Messages \cup {NoMessage}]
Idle == [at |-> "idle", msg |-> NoMessage]

TypeOK ==
  /\ rows \in [Messages -> Row]
  /\ \A m \in Messages : rows[m].lease > 0 => rows[m].state = "PROCESSING"
  /\ seen \subseteq Messages /\ \A m \in seen : rows[m].state \in Settled \/ rows[m].lease > 0
  /\ run \in [Runs -> [at : {"idle", "context", "generate", "reply", "challenge",
                            "fallback", "opponent"},
                     msg : Messages \cup {NoMessage}]]
  /\ usage \in [credits : Nat, cooldown : BOOLEAN, pending : BOOLEAN]
  /\ stored \in Nat /\ unwritten \in BOOLEAN
  /\ \A c \in {chat, chatFile} : c \in Seq(Turn) /\ Len(c) <= MaxContext
  /\ billed \in 0..MaxTurns
  /\ current \cup again \subseteq Messages

Init ==
  /\ rows = [m \in Messages |-> [state |-> "none", lease |-> 0]]
  /\ seen = {}
  /\ run = [r \in Runs |-> Idle]
  /\ usage = [credits |-> 0, cooldown |-> FALSE, pending |-> FALSE]
  /\ stored = 0 /\ unwritten = FALSE
  /\ chat = <<>> /\ chatFile = <<>>
  /\ billed = 0 /\ current = {} /\ again = {}

-----------------------------------------------------------------------------
(***************************************************************************)
(* The claim                                                               *)
(***************************************************************************)

\* Mutated: the recovery does not look at the state; settled rows have no lease.
ClaimableAnyState(row) == row.lease = 0
\* tryClaimMessageProcessing: a new row, or one in work whose lease is over.
Claimable(row) ==
  \/ row.state = "none"
  \/ row.state = "PROCESSING" /\ row.lease = 0

Claimed(row) == [state |-> "PROCESSING", lease |-> LeaseTime]

\* completeMessageProcessing, by whichever run: the lease ends.
Complete(m, state) ==
  /\ rows' = [rows EXCEPT ![m] = [state |-> state, lease |-> 0]]
  /\ current' = current \cup {m}

-----------------------------------------------------------------------------
(***************************************************************************)
(* A delivery: both listeners up to their first await                      *)
(***************************************************************************)

\* A refused claim ends both listeners and changes nothing.
Claims(m) ==
  /\ Claimable(rows[m])
  /\ rows' = [rows EXCEPT ![m] = Claimed(@)]
  /\ current' = current \cup {m}
  /\ again' = IF m \in current THEN again \cup {m} ELSE again

\* A lease is longer than the life of the set, which therefore turns no claimed
\* message away (TypeOK says so).
Remembered(m) == m \notin seen /\ seen' = seen \cup {m}

\* The thread has an active builder session, and the message is left to the
\* builder listener.  That one claims it as well, in the same step, is refused
\* because of the row just written, and returns.
Defer(m) ==
  /\ m \in ThreadMessages
  /\ Claims(m)
  /\ Remembered(m)
  /\ UNCHANGED <<run, usage, stored, chat, chatFile, billed, unwritten>>

\* A bot's message, or one outside the assistant channel: the row stays in work.
Ignore(m) ==
  /\ Claims(m)
  /\ Remembered(m)
  /\ UNCHANGED <<run, usage, stored, chat, chatFile, billed, unwritten>>

Accept(r, m) ==
  /\ m \notin BotMessages
  /\ run[r].at = "idle"
  /\ Claims(m)
  /\ Remembered(m)
  /\ run' = [run EXCEPT ![r] = [at |-> "context", msg |-> m]]
  /\ UNCHANGED <<usage, stored, chat, chatFile, billed, unwritten>>

\* The opponent of an active rivalry speaks: no limit is looked at.
AcceptOpponent(r, m) ==
  /\ m \in BotMessages
  /\ run[r].at = "idle"
  /\ Claims(m)
  /\ Remembered(m)
  /\ run' = [run EXCEPT ![r] = [at |-> "opponent", msg |-> m]]
  /\ UNCHANGED <<usage, stored, chat, chatFile, billed, unwritten>>

-----------------------------------------------------------------------------
(***************************************************************************)
(* The main listener after its awaits                                      *)
(***************************************************************************)

At(r, place) == run[r].at = place
Over(r)      == run' = [run EXCEPT ![r] = Idle]

\* One of the many returns on the way to the model: AFK and action commands, no
\* mention, greeting, rate limit, rivalry, creator question, an answer of the
\* conversational agent, a moderation button.  None of them completes the row.
\* Nor does a turn of the opponent that is not answered, or fails.
Otherwise(r) ==
  /\ At(r, "context") \/ At(r, "opponent")
  /\ Over(r)
  /\ UNCHANGED <<rows, seen, usage, stored, chat, chatFile, history, unwritten>>

\* estimateCredits, by the length of the message.
Cost(m) == IF m \in LongMessages THEN LongCost ELSE 1

\* Mutated: the length of the message is not handed over.
AllowedAsShort(r) == ~usage.cooldown /\ usage.credits + 1 <= DailyLimit

\* UsageManager.check().  Its rate and burst buckets are never filled, and its
\* count of concurrent requests is never raised.
Allowed(r) == ~usage.cooldown /\ usage.credits + Cost(run[r].msg) <= DailyLimit

LimitReached(r) ==
  /\ At(r, "context") /\ ~Allowed(r)
  /\ Over(r)
  /\ UNCHANGED <<rows, seen, usage, stored, chat, chatFile, history, unwritten>>

Latest(turns, n) == SubSeq(turns, Len(turns) - n + 1, Len(turns))

Summary == [role |-> "system", msg |-> NoMessage]

\* filter(): the turns at the places in I, in their order; the n-th has n - 1
\* members of I before it.
Selected(turns, I) ==
  LET Place(n) == CHOOSE i \in I : Cardinality({j \in I : j < i}) = n - 1
  IN [n \in 1..Cardinality(I) |-> turns[Place(n)]]

Systems(turns) == Selected(turns, {i \in DOMAIN turns : turns[i].role = "system"})
Spoken(turns)  == Selected(turns, {i \in DOMAIN turns : turns[i].role # "system"})

\* Mutated: the important old turns are put behind the recent ones.
CompressionsSwapped(turns) ==
  LET old == 1..(Len(Spoken(turns)) - KeepRecent)
  IN { Systems(turns) \o <<Summary>>
         \o Latest(Spoken(turns), KeepRecent) \o Selected(Spoken(turns), kept) :
       kept \in {S \in SUBSET old : S # old /\ Len(turns) >= MinMessages} }

\* compressMessages: of the turns before the recent ones some are important
\* enough to be kept, the others, at least one, become a summary.
Compressions(turns) ==
  LET old == 1..(Len(Spoken(turns)) - KeepRecent)
  IN { Systems(turns) \o <<Summary>>
         \o Selected(Spoken(turns), kept) \o Latest(Spoken(turns), KeepRecent) :
       kept \in {S \in SUBSET old : S # old /\ Len(turns) >= MinMessages} }

\* The history is read, compressed if it has too many tokens, and the router is
\* asked.
Ask(r) ==
  /\ At(r, "context") /\ Allowed(r)
  /\ run' = [run EXCEPT ![r].at = "generate"]
  /\ chat' \in {chat} \cup Compressions(chat)
  /\ UNCHANGED <<rows, seen, usage, stored, chatFile, history, unwritten>>

\* The same after the idle time: the row in the database is as old or older.
AskAfterIdle(r) ==
  /\ At(r, "context") /\ Allowed(r)
  /\ run' = [run EXCEPT ![r].at = "generate"]
  /\ chat' = <<>> /\ chatFile' = <<>>
  /\ UNCHANGED <<rows, seen, usage, stored, history, unwritten>>

\* The opening challenge of a rivalry: the router is asked without the history;
\* it answers, or the prepared text is sent.
AskChallenge(r, place) ==
  /\ At(r, "context") /\ Allowed(r)
  /\ run' = [run EXCEPT ![r].at = place]
  /\ UNCHANGED <<rows, seen, usage, stored, chat, chatFile, history, unwritten>>

\* Mutated: nothing is cut off.
LastTurnsAll(turns) == turns

LastTurns(turns) == IF Len(turns) <= MaxContext THEN turns ELSE Latest(turns, MaxContext)

Added(turns, role, m) == LastTurns(Append(turns, [role |-> role, msg |-> m]))
Exchanged(m) == Added(Added(chat, "user", m), "assistant", m)

\* recordDeferred
Recorded(credits) == [usage EXCEPT !.credits = @ + credits, !.pending = TRUE]

\* The answer is there: both turns go to memory and the credits of the check are
\* counted, in memory too, before the reply is sent.
Answer(r) ==
  /\ At(r, "generate")
  /\ chat' = Exchanged(run[r].msg)
  /\ usage' = Recorded(Cost(run[r].msg))
  /\ run' = [run EXCEPT ![r].at = "reply"]
  /\ UNCHANGED <<rows, seen, stored, chatFile, history, unwritten>>

\* The opponent is answered, for one credit whatever the length: recorded, but
\* nothing flushes.
AnswerOpponent(r) ==
  /\ At(r, "opponent") /\ billed < MaxTurns
  /\ usage' = Recorded(1)
  /\ billed' = billed + 1
  /\ Over(r)
  /\ UNCHANGED <<rows, seen, stored, chat, chatFile, current, again, unwritten>>

\* What is in memory when the reply is sent; a challenge is recorded after it.
Turns(r)   == IF At(r, "challenge") THEN Exchanged(run[r].msg) ELSE chat
Counted(r) == IF At(r, "challenge") THEN Recorded(Cost(run[r].msg)) ELSE usage

Sent(r) == run[r].at \in {"reply", "challenge", "fallback"}

\* flushBatch() and flush(); the second writes what is pending.
Flush(r) ==
  LET u == Counted(r) IN
  /\ Sent(r)
  /\ chat' = Turns(r) /\ chatFile' = Turns(r)
  /\ usage' = [u EXCEPT !.pending = FALSE]
  /\ IF u.pending THEN stored' = u.credits /\ unwritten' = FALSE
                  ELSE UNCHANGED <<stored, unwritten>>
  /\ Over(r)
  /\ UNCHANGED <<seen, billed, again>>

Reply(r) == At(r, "reply") /\ Flush(r) /\ Complete(run[r].msg, "COMPLETED")

\* This return does not complete the row either.
Challenge(r) == ~At(r, "reply") /\ Flush(r) /\ UNCHANGED <<rows, current>>

\* What a run has done when its try block fails: nothing more, because an await
\* was rejected, or all up to the write of usage-data.json, which threw.
Fails(r, inFlush) ==
  IF inFlush
  THEN /\ Sent(r) /\ Counted(r).pending
       /\ chat' = Turns(r) /\ chatFile' = Turns(r)
       /\ usage' = [Counted(r) EXCEPT !.pending = FALSE, !.cooldown = TRUE]
  ELSE /\ run[r].at \notin {"idle", "opponent"}
       /\ usage' = [usage EXCEPT !.cooldown = TRUE]
       /\ UNCHANGED <<chat, chatFile>>

\* Mutated: the failure is counted in memory only.
CatchUnwritten(r, inFlush) ==
  /\ Fails(r, inFlush)
  /\ Complete(run[r].msg, "FAILED")
  /\ Over(r)
  /\ UNCHANGED <<seen, stored, billed, again, unwritten>>

\* The catch block: the failure is recorded, which writes the file and starts a
\* cool-down, and the row is settled.
Catch(r, inFlush) ==
  /\ Fails(r, inFlush)
  /\ stored' = usage'.credits /\ unwritten' = FALSE
  /\ Complete(run[r].msg, "FAILED")
  /\ Over(r)
  /\ UNCHANGED <<seen, billed, again>>

\* The same when usage-data.json cannot be written: record() throws inside the
\* catch block and the row stays in work.
CatchThrows(r, inFlush) ==
  /\ Fails(r, inFlush)
  /\ unwritten' = TRUE
  /\ Over(r)
  /\ UNCHANGED <<rows, seen, stored, history>>

-----------------------------------------------------------------------------
\* Thirty seconds: the set is cleared, leases run down.
Tick ==
  LET lapsed == {m \in Messages : rows[m].lease = 1} IN
  /\ rows' = [m \in Messages |-> [rows[m] EXCEPT !.lease = IF @ = 0 THEN 0 ELSE @ - 1]]
  /\ seen' = {}
  /\ current' = current \ lapsed
  /\ UNCHANGED <<run, usage, stored, chat, chatFile, billed, again, unwritten>>

CooldownEnds ==
  /\ usage.cooldown
  /\ usage' = [usage EXCEPT !.cooldown = FALSE]
  /\ UNCHANGED <<rows, seen, run, stored, chat, chatFile, history, unwritten>>

\* The credits start again, in the file as well: they carry their day.
Midnight ==
  /\ usage' = [usage EXCEPT !.credits = 0]
  /\ stored' = 0 /\ billed' = 0
  /\ UNCHANGED <<rows, seen, run, chat, chatFile, current, again, unwritten>>

\* The /reset command: memory and database at once.
Reset ==
  /\ chat' = <<>> /\ chatFile' = <<>>
  /\ UNCHANGED <<rows, seen, run, usage, stored, history, unwritten>>

Restart ==
  /\ seen' = {}
  /\ run' = [r \in Runs |-> Idle]
  /\ \E held \in BOOLEAN :
       /\ IF unwritten THEN held => usage.cooldown ELSE held = usage.cooldown
       /\ usage' = [credits |-> stored, cooldown |-> held, pending |-> FALSE]
  /\ chat' = chatFile
  /\ unwritten' = FALSE
  /\ UNCHANGED <<rows, stored, chatFile, history>>

Next ==
  \/ \E m \in Messages :
       \/ Defer(m) \/ Ignore(m)
       \/ \E r \in Runs : Accept(r, m) \/ AcceptOpponent(r, m)
  \/ \E r \in Runs :
       \/ Otherwise(r) \/ LimitReached(r)
       \/ Ask(r) \/ AskAfterIdle(r)
       \/ \E place \in {"challenge", "fallback"} : AskChallenge(r, place)
       \/ Answer(r) \/ AnswerOpponent(r) \/ Reply(r) \/ Challenge(r)
       \/ \E inFlush \in BOOLEAN :
            Catch(r, inFlush) \/ CatchThrows(r, inFlush)
  \/ Tick \/ CooldownEnds \/ Midnight \/ Reset \/ Restart

Spec == Init /\ [][Next]_vars

-----------------------------------------------------------------------------
\* "prevent processing the same message twice (e.g., from Discord gateway
\* redelivery or race conditions)": whatever is delivered again, crashes or
\* fails, a message is not handled again before its lease has run out, and never
\* once it is settled within it.
OneHandlingPerLease == again = {}

\* The recent conversation is a dialogue: among its last KeepRecent turns every
\* answer follows the message it answers, although several answers are waited
\* for at a time, old turns are cut off and compression takes the turns before
\* these apart ("prevents repeated compression from destroying meaning").
RecentTurnsPaired ==
  \A i \in DOMAIN chat :
    i > 1 /\ i > Len(chat) - KeepRecent + 1 /\ chat[i].role = "assistant"
      => chat[i - 1] = [role |-> "user", msg |-> chat[i].msg]

\* "Record usage without writing to disk immediately": a deferred record is not
\* forgotten in memory.  Credits that the file lacks are marked as pending, for
\* the next flush of whichever run, unless the last write failed.
UsageStored == stored # usage.credits => usage.pending \/ unwritten

\* The limit of the day is checked before the router is asked, and the credits are
\* counted after its answer: runs under way can take a user past it, each but one by
\* the credits of a long message, and so do the turns of a rivalry, by one; no restart,
\* failed write or change of the day lets them go further.
OvershootBounded ==
  usage.credits <= DailyLimit + LongCost * (Cardinality(Runs) - 1) + billed
=============================================================================
