--------------------------- MODULE DriverOptions ---------------------------
(***************************************************************************)
(* The classes derived from Option, and what MySQLDriver's overload of     *)
(* set_option_impl() for each of them does: which call of the C API it     *)
(* makes, from which version of the client library on, and whether before  *)
(* or after the connection is up.                                          *)
(***************************************************************************)
EXTENDS Naturals

CONSTANT HasSslSet  \* the client library has mysql_ssl_set()

ASSUME DriverOptionsAssumption == HasSslSet \in BOOLEAN

(* Set by mysql_options() or, SslOption, mysql_ssl_set(): the client       *)
(* library may reject them.                                                *)
ApiOptions ==
  {"CompressOption", "ConnectTimeoutOption", "GuessConnectionOption", "InitCommandOption",
   "LocalInfileOption", "NamedPipeOption", "ProtocolOption", "ReadDefaultFileOption",
   "ReadDefaultGroupOption", "ReadTimeoutOption", "ReportDataTruncationOption",
   "SecureAuthOption", "SetCharsetDirOption", "SetCharsetNameOption", "SetClientIpOption",
   "SharedMemoryBaseNameOption", "SslOption", "UseEmbeddedConnectionOption",
   "UseRemoteConnectionOption", "WriteTimeoutOption"}

(* Set as a bit of client_flag; the second two are a request to the server *)
(* when there is a connection.                                             *)
FlagOptions ==
  {"FoundRowsOption", "IgnoreSpaceOption", "InteractiveOption", "LocalFilesOption",
   "NoSchemaOption"}
ServerOptions == {"MultiResultsOption", "MultiStatementsOption"}

OptionClasses == ApiOptions \cup FlagOptions \cup ServerOptions \cup {"ReconnectOption"}

(* The bits, as the powers of two they are.                                *)
BitOf == [c \in FlagOptions \cup ServerOptions |->
  CASE c = "FoundRowsOption" -> 1 [] c = "NoSchemaOption" -> 4 [] c = "LocalFilesOption" -> 7
    [] c = "IgnoreSpaceOption" -> 8 [] c = "InteractiveOption" -> 10
    [] c = "MultiStatementsOption" -> 16 [] c = "MultiResultsOption" -> 17]
TransactionsBit == 13
MultiResultsBit == 17

(* The version a class needs.                                              *)
Since(class) ==
  CASE class = "ProtocolOption" -> 40001
    [] class = "SharedMemoryBaseNameOption" -> 40100
    [] class \in {"GuessConnectionOption", "MultiResultsOption", "MultiStatementsOption",
                  "ReadTimeoutOption", "SecureAuthOption", "SetClientIpOption",
                  "UseEmbeddedConnectionOption", "UseRemoteConnectionOption",
                  "WriteTimeoutOption"} -> 40101
    [] class = "ReportDataTruncationOption" -> 50003
    [] class = "ReconnectOption" -> 50013
    [] OTHER -> 0
ReconnectFixed == 50106

Supported(class, version) ==
  version >= Since(class) /\ (class = "SslOption" => HasSslSet)

(* set_option_internal() for a bit: one that the version is known to have. *)
KnownFlag(class, version) ==
  BitOf[class] <= IF version > 40000 THEN MultiResultsBit ELSE TransactionsBit

(* The errors that can come of setting an option of a class.  "ignored" is *)
(* err_NONE for a request the server refused: set_multi_statements_option()*)
(* is called for its effect alone.                                         *)
SetErrors(class, version, connected) ==
  CASE ~Supported(class, version) -> {"api_limit"}
    [] Supported(class, version) /\ class = "ReconnectOption" ->
         IF connected \/ version >= ReconnectFixed THEN {"NONE", "api_reject"} ELSE {"disconnected"}
    [] Supported(class, version) /\ class \in ServerOptions /\ connected -> {"NONE", "ignored"}
    [] Supported(class, version) /\ class \in FlagOptions \cup ServerOptions /\ ~connected ->
         IF KnownFlag(class, version) THEN {"NONE"} ELSE {"api_reject"}
    [] Supported(class, version) /\ class \in ApiOptions /\ ~connected -> {"NONE", "api_reject"}
    [] OTHER -> {"connected"}

(* What is set when there was no error: a request to the server is about   *)
(* several statements in one, whichever of the two classes it came from.   *)
SettingOf(class, connected) ==
  IF class \in ServerOptions /\ connected THEN "MultiStatementsOption" ELSE class
=============================================================================
