--------------------------------- MODULE Link ---------------------------------
(***************************************************************************)
(* What ConnectionSupervisor promises its gateway, without threads, locks  *)
(* or Clients: one link that comes up and goes down, takes messages while  *)
(* it is up, is given up after MaxAttempts failures in a row, and ends     *)
(* once it is told to stop.                                                *)
(***************************************************************************)
EXTENDS Naturals, Sequences

CONSTANTS
    Messages,
    MaxAttempts     \* failures in a row after which it is given up; 0 = never

VARIABLES
    phase,          \* "idle", "down", "up" or "over"
    asked,          \* stop() has been called
    failed,         \* failed()
    tries,          \* failures since the link was last up
    ups,            \* how often it came up
    log             \* messages taken since it came up

linkVars == <<phase, asked, failed, tries, ups, log>>

Init ==
    /\ phase = "idle" /\ asked = FALSE /\ failed = FALSE
    /\ tries = 0 /\ ups = 0 /\ log = <<>>

Begin ==
    /\ phase = "idle" /\ phase' = "down"
    /\ UNCHANGED <<asked, failed, tries, ups, log>>

\* A link that was given up never comes up again.
ComeUp ==
    /\ phase = "down" /\ phase' = "up"
    /\ ~failed
    /\ tries' = 0 /\ ups' = ups + 1
    /\ UNCHANGED <<asked, failed, log>>

\* Nothing is taken after stop() has been called.
Take(m) ==
    /\ phase = "up" /\ ~asked
    /\ log' = Append(log, m)
    /\ UNCHANGED <<phase, asked, failed, tries, ups>>

\* What was taken is not carried over to the next connection.
GoDown ==
    /\ phase = "up" /\ phase' = "down"
    /\ log' = <<>>
    /\ UNCHANGED <<asked, failed, tries, ups>>

Fail ==
    /\ phase = "down" /\ ~asked /\ ~failed
    /\ tries' = tries + 1
    /\ failed' = (MaxAttempts # 0 /\ tries' >= MaxAttempts)
    /\ UNCHANGED <<phase, asked, ups, log>>

AskStop ==
    /\ phase # "idle"
    /\ asked' = TRUE
    /\ UNCHANGED <<phase, failed, tries, ups, log>>

\* It ends only when it was told to stop or was given up.
Finish ==
    /\ phase = "down" /\ phase' = "over"
    /\ asked \/ failed
    /\ UNCHANGED <<asked, failed, tries, ups, log>>

Next == \/ Begin \/ ComeUp \/ GoDown \/ Fail \/ AskStop \/ Finish
        \/ \E m \in Messages : Take(m)

Spec == Init /\ [][Next]_linkVars
=============================================================================
