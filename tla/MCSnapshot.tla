----------------------------- MODULE MCSnapshot -----------------------------
EXTENDS Snapshot

\* The last leader of three committed entries, and a log of the first one's.
CommittedTerms == <<1, 2, 2>>
EarlierTerms == <<1, 1>>
=============================================================================
