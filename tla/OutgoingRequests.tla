--------------------------- MODULE OutgoingRequests ---------------------------
(* Requests to another host (lib/requests.ts) and its temporary bans                 *)
(* (lib/requests_temporary_host_ban.ts): a host that fails is banned, longer each    *)
(* time that it still fails after a ban; one that answers is not banned anymore. A   *)
(* host that asks for fewer requests holds those to come. The bans are saved with a  *)
(* delay, and restored at start.                                                     *)
EXTENDS Naturals

CONSTANTS
    Calls, None,
    BaseBanTime, BanTimeIncreaseFactor, MaxBanTime, Timeout,
    MaxClock, MaxAttempts, MaxBanRestarts
ASSUME BanTimesAssumption ==
    /\ BaseBanTime \in Nat \ {0} /\ BanTimeIncreaseFactor \in Nat \ {0, 1}
    /\ MaxBanTime \in Nat /\ BaseBanTime <= MaxBanTime

VARIABLES
    clock,
    ban,            \* [banTime, expire, failingSince: when the first ban began], or None
    savedBan, backupDue,
    tooMany,        \* the call whose 429 answer holds the next ones, and until when, or None
    calls,          \* [Calls -> [step, sentAt, until, attempts]]
    together,       \* the last multiplication came from a request sent before the ban it multiplies
    hostRestarts

ovars == <<clock, ban, savedBan, backupDue, tooMany, calls, together, hostRestarts>>

Unsent == [step |-> "idle", sentAt |-> 0, until |-> 0, attempts |-> 0]

OutgoingInit ==
    /\ clock = 0
    /\ ban = None /\ savedBan = None /\ backupDue = FALSE
    /\ tooMany = None
    /\ calls = [c \in Calls |-> Unsent]
    /\ together = FALSE
    /\ hostRestarts = 0

-----------------------------------------------------------------------------

Banned == ban # None /\ clock < ban.expire

\* request: fails at once while the host is banned, waits if it asked for it, otherwise
\* is sent. The answer of another call may come first, hence the parameter.
Requesting(attempts, held) ==
    IF Banned THEN Unsent
    ELSE IF held # None THEN [step |-> "held", sentAt |-> 0, until |-> held.until + 1, attempts |-> attempts]
    ELSE [step |-> "sent", sentAt |-> clock, until |-> 0, attempts |-> attempts + 1]

Becomes(c, call) == calls' = [calls EXCEPT ![c] = call]

Request(c) ==
    /\ calls[c].step = "idle" \/ (calls[c].step = "pausing" /\ clock >= calls[c].until)
    /\ Becomes(c, Requesting(calls[c].attempts, tooMany))
    /\ UNCHANGED <<clock, ban, savedBan, backupDue, tooMany, together, hostRestarts>>

\* waitForHostToAcceptNewRequests: once over, the bans are not checked again.
HeldRequest(c) ==
    /\ calls[c].step = "held" /\ clock >= calls[c].until
    /\ Becomes(c, IF tooMany # None THEN [calls[c] EXCEPT !.until = tooMany.until + 1]
                  ELSE [calls[c] EXCEPT !.step = "sent", !.sentAt = clock, !.attempts = @ + 1])
    /\ UNCHANGED <<clock, ban, savedBan, backupDue, tooMany, together, hostRestarts>>

Answered(c) == calls[c].step = "sent" /\ Becomes(c, Unsent)

ResetBanData(c) ==
    /\ Answered(c)
    /\ ban' = None
    /\ backupDue' = TRUE
    /\ UNCHANGED <<clock, savedBan, tooMany, together, hostRestarts>>

\* A mutant: every failure multiplies the ban time.
DeclareAnyHostError(c) ==
    /\ Answered(c)
    /\ LET banTime == IF ban = None THEN BaseBanTime
                      ELSE IF ban.banTime * BanTimeIncreaseFactor < MaxBanTime THEN ban.banTime * BanTimeIncreaseFactor ELSE MaxBanTime
       IN ban' = [banTime |-> banTime, expire |-> clock + banTime,
                  failingSince |-> IF ban = None THEN clock ELSE ban.failingSince]
    /\ backupDue' = TRUE
    /\ UNCHANGED <<clock, savedBan, tooMany, together, hostRestarts>>

\* A status above 500, a timeout, a refused connection, an answer that isn't JSON.
DeclareHostError(c) ==
    /\ Answered(c)
    /\ IF Banned THEN UNCHANGED <<ban, backupDue, together>>
       ELSE LET increased == IF ban = None THEN BaseBanTime ELSE ban.banTime * BanTimeIncreaseFactor
                banTime == IF increased < MaxBanTime THEN increased ELSE MaxBanTime
            IN /\ ban' = [banTime |-> banTime, expire |-> clock + banTime,
                          failingSince |-> IF ban = None THEN clock ELSE ban.failingSince]
               /\ backupDue' = TRUE
               /\ together' = (ban # None /\ calls[c].sentAt < ban.expire - ban.banTime)
    /\ UNCHANGED <<clock, savedBan, tooMany, hostRestarts>>

\* Other errors: statuses 400 to 499, timeouts with noHostBanOnTimeout.
FailWithoutBan(c) == Answered(c) /\ UNCHANGED <<clock, ban, savedBan, backupDue, tooMany, together, hostRestarts>>

\* Retryable errors, up to a number of attempts.
RetryLater(c) ==
    /\ calls[c].step = "sent" /\ calls[c].attempts < MaxAttempts
    /\ Becomes(c, [calls[c] EXCEPT !.step = "pausing", !.until = clock + 1])
    /\ UNCHANGED <<clock, ban, savedBan, backupDue, tooMany, together, hostRestarts>>

\* Status 429: this call and the next ones wait for as long as the host asks.
WaitAfterTooManyRequests(c, retryAfter) ==
    /\ calls[c].step = "sent" /\ calls[c].attempts < MaxAttempts
    /\ tooMany' = [by |-> c, until |-> clock + retryAfter]
    /\ Becomes(c, [calls[c] EXCEPT !.step = "waiting", !.until = clock + retryAfter])
    /\ UNCHANGED <<clock, ban, savedBan, backupDue, together, hostRestarts>>

RequestAgain(c) ==
    LET held == IF tooMany # None /\ tooMany.by = c THEN None ELSE tooMany
    IN /\ calls[c].step = "waiting" /\ clock >= calls[c].until
       /\ tooMany' = held
       /\ Becomes(c, Requesting(calls[c].attempts, held))
       /\ UNCHANGED <<clock, ban, savedBan, backupDue, together, hostRestarts>>

\* Time passes; a call is aborted at its timeout.
Tick ==
    /\ clock < MaxClock
    /\ \A c \in Calls : calls[c].step = "sent" => clock < calls[c].sentAt + Timeout
    /\ clock' = clock + 1
    /\ UNCHANGED <<ban, savedBan, backupDue, tooMany, calls, together, hostRestarts>>

Backup ==
    /\ backupDue
    /\ savedBan' = ban
    /\ backupDue' = FALSE
    /\ UNCHANGED <<clock, ban, tooMany, calls, together, hostRestarts>>

\* A new process restores the bans that did not expire.
RestoreNonExpiredBans ==
    /\ hostRestarts < MaxBanRestarts
    /\ hostRestarts' = hostRestarts + 1
    /\ ban' = IF savedBan # None /\ savedBan.expire > clock THEN savedBan ELSE None
    /\ backupDue' = FALSE
    /\ tooMany' = None
    /\ calls' = [c \in Calls |-> Unsent]
    /\ UNCHANGED <<clock, savedBan, together>>

OutgoingNext ==
    \/ \E c \in Calls :
         \/ Request(c) \/ HeldRequest(c) \/ RequestAgain(c)
         \/ ResetBanData(c) \/ DeclareHostError(c) \/ FailWithoutBan(c) \/ RetryLater(c)
         \/ \E retryAfter \in 1..2 : WaitAfterTooManyRequests(c, retryAfter)
    \/ Tick \/ Backup \/ RestoreNonExpiredBans

OutgoingSpec == OutgoingInit /\ [][OutgoingNext]_ovars

-----------------------------------------------------------------------------

\* A host is banned for long only if it has been failing for long: whatever the number
\* of calls that fail together, there was time for all the shorter bans since its first
\* failure. When bans grow by a factor f, those of lengths b, b f, .. up to l last
\* (f l - b) / (f - 1) together.
BansReflectOutages ==
    ban # None => BaseBanTime + (BanTimeIncreaseFactor - 1) * (ban.expire - ban.failingSince)
                    >= BanTimeIncreaseFactor * ban.banTime

\* requests_temporary_host_ban.ts:90: "Prevent several simulateous requests to all
\* multiply the ban time": a request sent before the ban does not multiply it.
SimultaneousFailuresCountOnce == ~together
=============================================================================
