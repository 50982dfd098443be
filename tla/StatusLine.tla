----------------------------- MODULE StatusLine -----------------------------
(***************************************************************************)
(* internal/statusline: the registry of metric sources, of which Poll takes  *)
(* the best and asks it in a goroutine of its own, against a timeout.  The   *)
(* files of the sources are written by other programs meanwhile.             *)
(***************************************************************************)
EXTENDS Integers, Sequences

CONSTANTS
  Listings,    \* the orders in which sources are registered
  Reports,     \* what a source may have to tell: [tokens, hit, context]
  MostTokens   \* the number of tokens above which a report is refused

Priority == [barista |-> 1, native |-> 2, webhook |-> 3, file |-> 4, envvar |-> 5]
Files == {"barista", "native", "file"}
Missing == -100   \* the value of a field that is left out
Figure == [tokens : Int, hit : Int, context : Int]

ASSUME StatusAssumption ==
  /\ Listings \subseteq Seq(DOMAIN Priority) /\ Reports \subseteq Figure
  /\ MostTokens \in Nat

VARIABLES
  sources,   \* the sources of the registry, in their order
  report,    \* what each of them has to tell
  fresh,     \* those whose file is there and young enough
  poll,      \* the call of Poll: its stage, source, next source to consider, and figures
  steady,    \* history: sources available all the while Poll was choosing
  young      \* history: what the source told while it was available, since it was asked

statusVars == <<sources, report, fresh, poll, steady, young>>
outside == <<sources, report, fresh>>

Torn == [tokens |-> Missing, hit |-> Missing, context |-> Missing]
NoPoll == [stage |-> "idle", source |-> "none", next |-> 0, figures |-> Torn]
Registered == {sources[k] : k \in DOMAIN sources}

IsAvailable(s) == s \in Files => s \in fresh
Available == {s \in Registered : IsAvailable(s)}

\* The figures a source makes of its report: the environment's are taken as they
\* are; elsewhere the tokens must be there and in range, other figures out of
\* range become zero, or a hundred of a native context; a webhook's hits are not looked at.
OrZero(n) == IF n = Missing THEN 0 ELSE n
Refused(s, r) ==
  /\ s # "envvar"
  /\ \/ r.tokens = Missing \/ r.tokens < 0 \/ r.tokens > MostTokens
     \/ s = "native" /\ r.context # Missing /\ r.context < 0
Context(s, n) ==
  IF s = "envvar" THEN OrZero(n)
  ELSE IF n > 100 THEN (IF s = "native" THEN 100 ELSE 0) ELSE IF n < 0 THEN 0 ELSE n
Hit(s, n) == IF s \in {"webhook", "envvar"} THEN OrZero(n) ELSE IF n < 0 THEN 0 ELSE n
Shown(s, r) ==
  [tokens |-> OrZero(r.tokens), hit |-> Hit(s, r.hit), context |-> Context(s, r.context)]
-----------------------------------------------------------------------------
StatusInit ==
  /\ sources \in Listings
  /\ \E r \in Reports : report = [s \in DOMAIN Priority |-> IF s = "envvar" THEN r ELSE Torn]
  /\ fresh = Files
  /\ poll = NoPoll /\ steady = {} /\ young = {}

\* Another program writes the file, which is empty at first, or changes what the
\* webhook will answer.
Told(s, r) ==
  /\ s \in Registered \ {"envvar"} /\ report[s] # r
  /\ report' = [report EXCEPT ![s] = r]
  /\ fresh' = fresh \cup ({s} \cap Files)
  /\ UNCHANGED <<sources, poll>>

\* A file gets too old, or is removed.
Ages(s) == s \in fresh \cap Registered /\ fresh' = fresh \ {s} /\ UNCHANGED <<sources, report, poll>>
-----------------------------------------------------------------------------
(* GetBest: the first source, or a later one that is available when its turn   *)
(* comes and is before the best so far; but that best must be available itself. *)

Choose ==
  /\ poll.stage \in {"idle", "answered", "failed"} /\ sources # <<>>
  /\ poll' = [stage |-> "choosing", source |-> sources[1], next |-> 2, figures |-> Torn]
  /\ UNCHANGED outside

\* Faulty variant: later sources are compared with the first one only.
ConsiderAgainstFirst ==
  LET s == sources[poll.next] IN
  /\ poll.stage = "choosing" /\ poll.next <= Len(sources)
  /\ poll' = [poll EXCEPT !.next = @ + 1,
                !.source = IF IsAvailable(s) /\ Priority[s] < Priority[sources[1]] THEN s ELSE @]
  /\ UNCHANGED outside

Consider ==
  LET s == sources[poll.next] IN
  /\ poll.stage = "choosing" /\ poll.next <= Len(sources)
  /\ poll' = [poll EXCEPT !.next = @ + 1,
                !.source = IF IsAvailable(s) /\ Priority[s] < Priority[@] THEN s ELSE @]
  /\ UNCHANGED outside

Settle ==
  /\ poll.stage = "choosing" /\ poll.next > Len(sources)
  /\ poll' = IF IsAvailable(poll.source) THEN [poll EXCEPT !.stage = "asked"]
             ELSE [poll EXCEPT !.stage = "failed", !.source = "none"]
  /\ UNCHANGED outside
-----------------------------------------------------------------------------
(* The goroutine looks at the source again, and then opens and reads it; its   *)
(* result waits in a channel that never blocks it.                          *)

Check ==
  /\ poll.stage = "asked"
  /\ poll' = [poll EXCEPT !.stage = IF IsAvailable(poll.source) THEN "checked" ELSE "failed"]
  /\ UNCHANGED outside

Read ==
  LET s == poll.source IN
  /\ poll.stage = "checked" /\ ~Refused(s, report[s])
  /\ poll' = [poll EXCEPT !.stage = "read", !.figures = Shown(s, report[s])]
  /\ UNCHANGED outside

\* What is there is refused, or the file or the webhook cannot be read.
ReadFails ==
  /\ poll.stage = "checked" /\ poll.source # "envvar"
  /\ poll' = [poll EXCEPT !.stage = "failed"]
  /\ UNCHANGED outside

Answer ==
  /\ poll.stage = "read"
  /\ poll' = [poll EXCEPT !.stage = "answered"]
  /\ UNCHANGED outside

Timeout ==
  /\ poll.stage \in {"asked", "checked", "read"}
  /\ poll' = [poll EXCEPT !.stage = "failed", !.figures = Torn]
  /\ UNCHANGED outside

\* The histories follow every step.
Observe ==
  /\ steady' = IF poll'.stage # "choosing" THEN steady
               ELSE IF poll.stage = "choosing" THEN steady \cap Available' ELSE Available'
  /\ young' = IF poll.stage = "choosing" \/ poll'.stage \in {"choosing", "failed"} THEN {}
              ELSE IF poll'.stage \in {"asked", "checked"} /\ poll'.source \in Available'
              THEN young \cup {report'[poll'.source]} ELSE young

StatusNext ==
  /\ \/ \E s \in DOMAIN Priority : Ages(s) \/ \E r \in Reports \cup {Torn} : Told(s, r)
     \/ Choose \/ Consider \/ Settle \/ Check \/ Read \/ ReadFails \/ Answer \/ Timeout
  /\ Observe

StatusSpec == StatusInit /\ [][StatusNext]_statusVars
-----------------------------------------------------------------------------
(* What must hold                                                          *)

\* While files age, vanish and are rewritten between one look and the next, an answer
\* comes from a source no worse than any that was available all the while Poll was
\* choosing; its figures are those of a report the source told while it was young,
\* after it was asked, and not of what an old file holds; and they are in range: of
\* every source but the environment, and of a webhook but for its cache hits.
AnswersAreSound ==
  poll.stage = "answered" =>
    LET s == poll.source  f == poll.figures IN
    /\ \A o \in steady : Priority[s] <= Priority[o]
    /\ \E r \in young : f = Shown(s, r)
    /\ s # "envvar" => f.tokens \in 0..MostTokens /\ f.context \in 0..100
    /\ s \in Files => f.hit >= 0

\* statusline.go:43 "Registry manages multiple statusline sources with fallback.":
\* Poll finds no source only when none of the registered ones was available.
FallsBack == poll.stage = "failed" /\ poll.source = "none" => steady = {}
=============================================================================
