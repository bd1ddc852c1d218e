SPECIFICATION TextSpec
CONSTANTS
    JSON_STRING_SIZE = 5
    Maxima <- MCMaxima
    Families <- MCFamilies
CHECK_DEADLOCK FALSE
INVARIANTS
    DomStringExact
    NumbersExact
    EncodingExact
    TokensBounded
    AsciiFaithful
