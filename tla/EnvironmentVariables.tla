------------------------- MODULE EnvironmentVariables -------------------------
(* secured_env_vars.c and the log files of secure_file.c, which are named after *)
(* what the caller gives.  The environment is a sequence of entries, an entry   *)
(* a sequence of characters.                                                    *)
EXTENDS Naturals, Sequences, SequencesExt

CONSTANT OPENSEA_PATH_MAX

ASSUME EnvironmentAssumption == OPENSEA_PATH_MAX \in Nat

EQUALS == "="

(* Up to and with the first "=", two entries are the same. *)
SameName(a, b) ==
    \E k \in DOMAIN a \cap DOMAIN b : a[k] = EQUALS /\ SubSeq(a, 1, k) = SubSeq(b, 1, k)

Twice(environ) == \E i, j \in DOMAIN environ : i < j /\ SameName(environ[i], environ[j])

(* tampered: the verdict of an earlier call, which is kept once it is TRUE. *)
is_Environment_Variable_List_Tampered(tampered, environ) == tampered \/ Twice(environ)

(* The C library gives the first entry of the name; to a process with           *)
(* privileges that are not its user's it gives none.                            *)
secure_getenv(environ, name, privileged) ==
    LET begin == Append(name, EQUALS)
        found == {i \in DOMAIN environ : IsPrefix(begin, environ[i])}
        first == environ[CHOOSE i \in found : \A j \in found : i <= j]
    IN IF privileged \/ found = {} THEN {} ELSE {SubSeq(first, Len(begin) + 1, Len(first))}

EnvAnswer(result, value, tampered) == [result |-> result, value |-> value, tampered |-> tampered]

(* scanned and read: the environment at the scan, and when the variable is      *)
(* read.  safe_strdup refuses no value, an empty one, and fails without memory. *)
get_Environment_Variable(null, tampered, scanned, read, name, privileged, memory) ==
    LET verdict == is_Environment_Variable_List_Tampered(tampered, scanned)
        value   == secure_getenv(read, name, privileged) \ {<<>>}
    IN IF null # {} THEN EnvAnswer("FAILURE", <<>>, tampered)
       ELSE IF verdict THEN EnvAnswer("TAMPERED_ENV_DETECTED", <<>>, TRUE)
       ELSE IF value = {} \/ ~memory THEN EnvAnswer("NOT_FOUND", <<>>, FALSE)
       ELSE EnvAnswer("SUCCESS", CHOOSE v \in value : TRUE, FALSE)

(* ------------------------------------------------------------ log files *)

SEPARATOR == "/"

Dotted(ext) == IF ext = <<>> \/ Head(ext) = "." THEN ext ELSE <<".">> \o ext

Directory(path) ==
    IF path = <<>> THEN <<".", SEPARATOR>> ELSE IF Last(path) = SEPARATOR THEN path ELSE Append(path, SEPARATOR)

(* <<>> is NULL: for no identifier, a path that is too long, and no memory.     *)
generate_Log_Name(convention, id, path, name, ext, stamp, memory) ==
    LET described == IF name = <<>> THEN <<"u", "n", "k", "n", "o", "w", "n">> ELSE name
        middle    == IF convention = "SERIAL_NUMBER_DATE_TIME"
                     THEN <<"_">> \o described \o <<"_">> \o stamp ELSE <<>>
    IN IF \/ id = <<>> /\ convention # "BYUSER"
          \/ Len(path) >= OPENSEA_PATH_MAX
          \/ path # <<>> /\ Len(Directory(path)) >= OPENSEA_PATH_MAX
          \/ ~memory
       THEN <<>> ELSE Directory(path) \o id \o middle \o Dotted(ext)

(* file: what secure_Open_File returned, NULL or a handle with its error.  The  *)
(* out pointer is tested for NULL instead of the handle.                        *)
create_And_Open_Secure_Log_File(null, id, path, generated, file) ==
    IF null # {} \/ id = <<>> \/ Len(path) > OPENSEA_PATH_MAX THEN "BAD_PARAMETER"
    ELSE IF generated = <<>> THEN "MEMORY_FAILURE"
    ELSE CASE file = "NULL" -> "crashed"
           [] file = "SEC_FILE_INSECURE_PATH" -> "INSECURE_PATH"
           [] file = "SEC_FILE_SUCCESS" -> "SUCCESS"
           [] OTHER -> "FAILURE"
===============================================================================
