------------------------------ MODULE RoomPhase ------------------------------
(***************************************************************************)
(* How the relay guesses the phase of a room from what the chain shows of  *)
(* the room's account.                                                     *)
(***************************************************************************)

RoomPhases ==
  {"waiting_for_player", "waiting_for_vrf", "playing", "round_end", "finished"}

\* The classes into which infer_phase_from_logs sorts the logs of a
\* transaction, by the words in them.
LogClasses == {"finished", "round end", "vrf", "action", "other"}

\* Mutant of InferredPhase: an action only starts a round.
InferredOnce(phase, class) ==
  CASE class = "finished" -> "finished"
    [] class = "round end" -> "round_end"
    [] class = "vrf" -> "waiting_for_vrf"
    [] class = "action" -> IF phase = "waiting_for_vrf" THEN "playing" ELSE phase
    [] class = "other" -> IF phase = "waiting_for_player" THEN "waiting_for_vrf"
                                                          ELSE phase

InferredPhase(phase, class) ==
  CASE class = "finished" -> "finished"
    [] class = "round end" -> "round_end"
    [] class = "vrf" -> "waiting_for_vrf"
    [] class = "action" -> "playing"
    [] class = "other" -> IF phase = "waiting_for_player" THEN "waiting_for_vrf"
                                                          ELSE phase

\* promote_phase_from_account
PromotedPhase(phase) ==
  CASE phase = "waiting_for_player" -> "waiting_for_vrf"
    [] phase = "waiting_for_vrf" -> "playing"
    [] OTHER -> phase

\* What handle_room_log_update does to the phase of a room, and what
\* handle_room_account_update does to it and to last_account_hash.
LogUpdated(room, class) == [room EXCEPT !.phase = InferredPhase(@, class)]

AccountUpdated(room, hash) ==
  IF room.hash = hash THEN room
  ELSE [room EXCEPT !.phase = PromotedPhase(@), !.hash = hash]

=============================================================================
