-------------------------------- MODULE Null --------------------------------
CONSTANT None  \* a null column, an absent field, a row or call there is not
=============================================================================
