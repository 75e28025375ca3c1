--------------------------- MODULE MCFollowupLine ---------------------------
(* FollowupLine for TLC: the cadence of the code, in small units of time.   *)
EXTENDS FollowupLine

CONSTANTS first_touch, second_touch, final_soft_close

MCLabel == <<first_touch, second_touch, final_soft_close>>
MCInterval == <<1, 1, 1>>
MCLearning == <<0, 1, 0>>
MCUserSpace == <<2, 2, 3>>
MCDispatchSpace == <<0, 2, 1>>
MCMaxOverdue == <<1, 0, 0>>
=============================================================================
