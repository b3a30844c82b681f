-------------------------------- MODULE Absence --------------------------------
\* null and undefined, in every module of the backend and its clients.
CONSTANT None
===============================================================================
