----------------------------- MODULE MCScriptConv -----------------------------
EXTENDS ScriptConv, MCScripts
=============================================================================
