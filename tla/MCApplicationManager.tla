------------------------ MODULE MCApplicationManager ------------------------
\* A small instance of ApplicationManager for TLC.
EXTENDS ApplicationManager
=============================================================================
