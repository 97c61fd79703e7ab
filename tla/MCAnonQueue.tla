---------------------------- MODULE MCAnonQueue ----------------------------
(***************************************************************************)
(* Model-checking instance of AnonQueue.                                   *)
(***************************************************************************)
EXTENDS AnonQueue, TLC

\* Good relays, of a digit and of another character; none; one with a slash.
MCRelays == {<<1>>, <<Dot>>, << >>, <<1, Slash, 2>>}

MCTypos == {0, 1, Slash, Dot}

MCNonces == {<<0>>, <<0, 1>>}

MCBodies == {<< >>, <<1, 0>>}

\* All cuts of what may be sent, and others.
MCFields == {<< >>, <<0>>, <<1>>, <<0, 1>>, <<1, 0>>, <<0, 1, 1, 0>>}

OwnerSymmetry == Permutations(Owners)
=============================================================================
