------------------------------- MODULE MCRender -------------------------------
EXTENDS Render, MCScripts
=============================================================================
