-------------------------- MODULE MCUpstreamRoutes --------------------------
EXTENDS UpstreamRoutes
=============================================================================
