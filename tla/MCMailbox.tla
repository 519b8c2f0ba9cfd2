----------------------------- MODULE MCMailbox -----------------------------
(* Mailbox with interchangeable agents, messages and runs without a deadline. *)
EXTENDS Mailbox, TLC

MailSymmetry ==
    Permutations(Run \ Dated) \cup Permutations(Agent) \cup Permutations(Msg)
=============================================================================
