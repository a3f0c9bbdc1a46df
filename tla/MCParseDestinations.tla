------------------------- MODULE MCParseDestinations -------------------------
\* ParseDestinations up to a length; TLC needs nothing more.
EXTENDS ParseDestinations
=============================================================================
