CONSTANTS
    Letters <- MCLetters
    Digits = {"1"}
    Points = {"-"}
    Brackets = {"["}
    Others = {" "}
    FieldNames <- MCFieldNames
    ArgumentNames <- MCArgumentNames
    Values <- MCValues
    Users <- MCUsers
    NoUser = NoUser
    MaxPieces <- MCMaxPieces
SPECIFICATION Spec
INVARIANTS
    TypeOK
    KeysTellApart
