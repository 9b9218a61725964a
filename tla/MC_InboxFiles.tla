--------------------------- MODULE MC_InboxFiles ---------------------------
(* Three messages of two sessions, of which two have attachments.           *)
EXTENDS InboxFiles, TLC
CONSTANTS m1, m2, m3, s1, s2

MCMessages == {m1, m2, m3}
MCSessions == {s1, s2}
MCSessionOf(m) == IF m = m3 THEN s2 ELSE s1
MCHasAttachment(m) == m # m3
Alike == Permutations({m1, m2})
=============================================================================
