--------------------------- MODULE MCObservatory ---------------------------
\* A finite instance of the observatory.
EXTENDS Observatory

CONSTANTS cli, console, r1, r2
=============================================================================
