----------------------------- MODULE MCDeckUpdate -----------------------------
EXTENDS DeckUpdate
=============================================================================
