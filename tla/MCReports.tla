------------------------------ MODULE MCReports ------------------------------
EXTENDS Reports
=============================================================================
