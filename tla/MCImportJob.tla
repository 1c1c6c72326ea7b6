---------------------------- MODULE MCImportJob -----------------------------
EXTENDS ImportJob
=============================================================================
