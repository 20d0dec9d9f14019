---------------------------- MODULE EmailDelivery ----------------------------
(***************************************************************************)
(* Mail: EmailService puts a job into the BullMQ queue 'email', whose      *)
(* processor sends it, or sends it directly with up to three attempts.     *)
(* The SMTP server may refuse a mail, or accept it and the sender be told  *)
(* that it failed; a worker may die before or after the server accepts.    *)
(***************************************************************************)
EXTENDS Naturals, FiniteSets

CONSTANTS
    Mails,
    MailWorkers,   \* concurrency: 3, in every process
    Nobody,
    MaxAttempts,   \* attempts, and maxAttempts of the direct way: 3
    MaxStalled

ASSUME EmailAssumption ==
    /\ MaxAttempts \in Nat \ {0} /\ MaxStalled \in Nat
    /\ IsFiniteSet(Mails) /\ IsFiniteSet(MailWorkers)
    /\ Nobody \notin MailWorkers

VARIABLES
    state, holder, failures, stalls,   \* the queue
    sending,     \* the job that each worker works on, and how far it is
    attempt,     \* of a mail that is sent directly
    accepted     \* ghost: how often the SMTP server has accepted each mail

MailQueue == INSTANCE JobQueue WITH Jobs <- Mails, Workers <- MailWorkers

mailVars == <<state, holder, failures, stalls, sending, attempt, accepted>>

MailTypeOK ==
    /\ MailQueue!QueueTypeOK
    /\ sending \in [MailWorkers -> [job : Mails, phase : {"sending", "sent", "threw"}] \cup {Nobody}]
    /\ attempt \in [Mails -> 1..MaxAttempts]
    /\ accepted \in [Mails -> Nat]

MailInit ==
    /\ MailQueue!QueueInit
    /\ sending = [w \in MailWorkers |-> Nobody]
    /\ attempt = [m \in Mails |-> 1]
    /\ accepted = [m \in Mails |-> 0]

\* sendEmailWithQueue: queue.add
Enqueue(m) ==
    /\ MailQueue!Add(m)
    /\ UNCHANGED <<sending, attempt, accepted>>

Accept(m) == accepted' = [accepted EXCEPT ![m] = @ + 1]

\* process(job) begins.
TakeMail(w, m) ==
    /\ sending[w] = Nobody
    /\ MailQueue!Take(w, m)
    /\ sending' = [sending EXCEPT ![w] = [job |-> m, phase |-> "sending"]]
    /\ UNCHANGED <<attempt, accepted>>

At(w, phase) == sending[w] # Nobody /\ sending[w].phase = phase

\* Mutant: the error is logged and not thrown on.
SendSwallowed(w) ==
    /\ At(w, "sending")
    /\ \/ Accept(sending[w].job)
       \/ UNCHANGED accepted
    /\ sending' = [sending EXCEPT ![w].phase = "sent"]
    /\ UNCHANGED <<state, holder, failures, stalls, attempt>>

\* transporter.sendMail resolves, or rejects and the error is thrown on.
Send(w) ==
    /\ At(w, "sending")
    /\ \/ Accept(sending[w].job) /\ sending' = [sending EXCEPT ![w].phase = "sent"]
       \/ Accept(sending[w].job) /\ sending' = [sending EXCEPT ![w].phase = "threw"]
       \/ UNCHANGED accepted /\ sending' = [sending EXCEPT ![w].phase = "threw"]
    /\ UNCHANGED <<state, holder, failures, stalls, attempt>>

\* Mutant: a rejection leaves process pending.
ReportSuccess(w) ==
    /\ At(w, "sent") /\ MailQueue!Complete(w, sending[w].job)
    /\ sending' = [sending EXCEPT ![w] = Nobody]
    /\ UNCHANGED <<attempt, accepted>>

\* The worker reports how process ended.
Report(w) ==
    /\ \/ At(w, "sent") /\ MailQueue!Complete(w, sending[w].job)
       \/ At(w, "threw") /\ MailQueue!FailAttempt(w, sending[w].job)
    /\ sending' = [sending EXCEPT ![w] = Nobody]
    /\ UNCHANGED <<attempt, accepted>>

WorkerDies(w) ==
    /\ sending[w] # Nobody
    /\ sending' = [sending EXCEPT ![w] = Nobody]
    /\ UNCHANGED <<state, holder, failures, stalls, attempt, accepted>>

StallMail(m) ==
    /\ MailQueue!Stall(m)
    /\ UNCHANGED <<sending, attempt, accepted>>

MailOrphaned(m) == sending[holder[m]] = Nobody \/ sending[holder[m]].job # m

MailStep ==
    \/ \E w \in MailWorkers : Send(w) \/ Report(w) \/ WorkerDies(w)
    \/ \E w \in MailWorkers, m \in Mails : TakeMail(w, m)
    \/ \E m \in Mails : StallMail(m)

-----------------------------------------------------------------------------
(* sendEmailWithoutQueue: one turn of its loop each *)

SentDirectly(m) ==
    /\ Accept(m)
    /\ UNCHANGED <<state, holder, failures, stalls, sending, attempt>>

LastAttempt(m) == attempt[m] = MaxAttempts

\* sendMail rejects: the loop waits and tries again, or gives up.
SendRejected(m) ==
    /\ Accept(m) \/ UNCHANGED accepted
    /\ attempt' = IF LastAttempt(m) THEN attempt ELSE [attempt EXCEPT ![m] = @ + 1]
    /\ UNCHANGED <<state, holder, failures, stalls, sending>>

=============================================================================
