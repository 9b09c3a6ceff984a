----------------------------- MODULE Checkpoint -----------------------------
(***************************************************************************)
(* What the owner's pin outside the repository promises: the history it    *)
(* vouches for is only ever extended, never cut short and never replaced.  *)
(* Whatever an owner imports first is where it begins.  Where a process    *)
(* has acted on a reading of the log that no longer held, an owner who     *)
(* recovers may replace it, by a history that is not shorter.              *)
(***************************************************************************)
EXTENDS SequencesExt

VARIABLES vouched,     \* the events the checkpoint stands for
          recovering   \* the owner imports a pin after such a reading

Vouch == IsPrefix(vouched, vouched')

Replace == recovering /\ Len(vouched) <= Len(vouched')

CheckpointSpec == [][Vouch \/ Replace]_vouched

=============================================================================
