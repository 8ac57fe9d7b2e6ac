---------------------------- MODULE Controllers ----------------------------
(***************************************************************************)
(* The parsers of backend/include/web_socket_controllers.hpp.  A JSON      *)
(* object is a function from its members to values [kind, v]; a text that  *)
(* is not a JSON object has no members, and fails where a required member  *)
(* is missing.  An std::optional is a set of at most one element.          *)
(***************************************************************************)
EXTENDS Integers, Sequences

NotJson == <<>>

Num(n) == [kind |-> "int", v |-> n]
Str(s) == [kind |-> "string", v |-> s]
Null == [kind |-> "null"]

None == 0             \* std::nullopt of an id

(* isMember() and a test of the type *)
Has(json, field, kind) == field \in DOMAIN json /\ json[field].kind = kind

(* An id that may be left out or null; anything else must be an int. *)
Absent(json, field) == field \notin DOMAIN json \/ Has(json, field, "null")

OptionalIsInt(json, field) == Absent(json, field) \/ Has(json, field, "int")

OptionalInt(json, field) == IF Absent(json, field) THEN None ELSE json[field].v

isRefresh(json) == Has(json, "type", "string") /\ json["type"].v = "refresh"

(* Mutant: a refresh has to carry the password, too. *)
ParseLoginStrictly(json) ==
    IF Has(json, "user_id", "int") /\ Has(json, "password", "string")
    THEN {[user_id |-> json["user_id"].v, is_refresh |-> isRefresh(json),
           password |-> IF isRefresh(json) THEN "" ELSE json["password"].v]}
    ELSE {}

(* Authentication_Parser on /login: a LoginRequest. *)
ParseLogin(json) ==
    IF /\ Has(json, "user_id", "int")
       /\ isRefresh(json) \/ Has(json, "password", "string")
    THEN {[user_id    |-> json["user_id"].v,
           is_refresh |-> isRefresh(json),
           password   |-> IF isRefresh(json) THEN "" ELSE json["password"].v]}
    ELSE {}

requiredStringFields == {"full_name", "address", "mobile", "email", "gender",
                         "nid", "account_type", "password"}

(* Authentication_Parser on /create_account: an AccountCreationRequest,    *)
(* whose texts are passed on as they are.                                  *)
ParseCreation(json) ==
    IF /\ \A f \in requiredStringFields : Has(json, f, "string")
       /\ OptionalIsInt(json, "user_id")
    THEN {[user_id  |-> OptionalInt(json, "user_id"),
           password |-> json["password"].v]}
    ELSE {}

(* Transaction_Parser: a TransactionRequest.  Nothing uses remarks, which  *)
(* default to "", in a decision, nor from_account at all.                  *)
ParseTransaction(json) ==
    IF /\ Has(json, "account_id", "int")
       /\ Has(json, "transaction_type", "string")
       /\ Has(json, "transaction_amount", "int")
       /\ OptionalIsInt(json, "to_account")
       /\ OptionalIsInt(json, "from_account")
    THEN {[account_id |-> json["account_id"].v,
           type       |-> json["transaction_type"].v,
           amount     |-> json["transaction_amount"].v,
           to_account |-> OptionalInt(json, "to_account")]}
    ELSE {}

Parse(path, json) ==
    CASE path = "/login"          -> ParseLogin(json)
      [] path = "/create_account" -> ParseCreation(json)
      [] path = "/transaction"    -> ParseTransaction(json)
=============================================================================
