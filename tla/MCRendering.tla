---------------------------- MODULE MCRendering -----------------------------
EXTENDS Rendering
MCSlots == <<1, 2>>
=============================================================================
