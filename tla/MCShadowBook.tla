---------------------------- MODULE MCShadowBook ----------------------------
(***************************************************************************)
(* The algorithms without processes: matching, the market maker's own      *)
(* book beside the engine's while it is alone with it, and ranking.  They  *)
(* share no state: a behaviour moves the one `part` names.                 *)
(***************************************************************************)
EXTENDS BotBook, Ranking

VARIABLE part

mcVars == <<botVars, rankingVars, part>>

MCInit == part \in {"book", "bot", "ranking"} /\ BotInit /\ RankingInit

BookStep    == part = "book" /\ OthersOrder /\ UNCHANGED <<rankingVars, part>>
BotStep     == part = "bot" /\ BotsOrder /\ UNCHANGED <<rankingVars, part>>
RankingStep == part = "ranking" /\ RankingNext /\ UNCHANGED <<botVars, part>>
MCNext      == BookStep \/ BotStep \/ RankingStep

MCSpec == MCInit /\ [][MCNext]_mcVars

MCSymmetry == Permutations(Ids) \cup Permutations(Ranked)
=============================================================================
