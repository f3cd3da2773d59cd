------------------------------- MODULE MCCanon -------------------------------
(* Small instances of Canon for TLC: one knowledge key and one key of an    *)
(* incident or task, two live contents and one that closes.                 *)
EXTENDS Canon, TLC

CONSTANTS know, inc, live1, live2, closed

MCKeys == {know, inc}
MCKnowledge == {know}
MCContents == {live1, live2, closed}
MCFewContents == {live1, closed}
MCClosed == {closed}
MCNone == {}
=============================================================================
