------------------------------ MODULE Readiness ------------------------------
(***************************************************************************)
(* What a deployment is configured for: the production-readiness report    *)
(* (app/services/compliance.py), the official validator of an invoice      *)
(* (app/services/official_validation.py) and the settings that both read   *)
(* (app/core/config.py).                                                   *)
(*                                                                         *)
(* The settings of a deployment are the set of those that are given: a     *)
(* command, a URL or a flag that is true.                                  *)
(***************************************************************************)
EXTENDS Naturals, FiniteSets

Countries == {"BE", "DE", "PL", "RO", "ES"}

(* _validator_for_invoice: the setting that names the command.             *)
ValidatorSetting ==
  [c \in Countries \ {"BE"} |->
     CASE c = "DE" -> "xrechnung_validator_command"
       [] c = "PL" -> "ksef_schema_validator_command"
       [] c = "RO" -> "ro_efactura_schema_validator_command"
       [] c = "ES" -> "spanish_sif_validator_command"]

SigningCommand == "spanish_sif_signing_command"
SigningFlag    == "spanish_sif_signing_configured"

SpanishEvidence ==
  {"spanish_sif_event_log_configured", "spanish_sif_aeat_test_portal_validated",
   "spanish_verifactu_submission_capable",
   "spanish_sif_responsible_declaration_ready"}

OtherSettings ==
  {"ksef_api_base_url", "ksef_credentials_configured",
   "ro_efactura_api_base_url", "ro_efactura_oauth_configured"}

SettingNames ==
  {ValidatorSetting[c] : c \in DOMAIN ValidatorSetting}
    \cup {SigningCommand, SigningFlag} \cup SpanishEvidence \cup OtherSettings

(* Fault: the German setting is asked for Poland as well.                  *)
RequirementsMixedUp(country) ==
  CASE country = "DE" -> {{ValidatorSetting["DE"]}}
    [] country = "PL" ->
         {{ValidatorSetting["DE"]}, {"ksef_api_base_url"},
          {"ksef_credentials_configured"}}
    [] country = "RO" ->
         {{ValidatorSetting["RO"]}, {"ro_efactura_api_base_url"},
          {"ro_efactura_oauth_configured"}}
    [] country = "ES" ->
         {{ValidatorSetting["ES"]}, {SigningFlag, SigningCommand}}
           \cup {{e} : e \in SpanishEvidence}
    [] OTHER -> {{}}

(* _requirements_for_profile, those that can be missing: each is met by    *)
(* any one of its settings.  A country without rules is never ready.       *)
Requirements(country) ==
  CASE country = "DE" -> {{ValidatorSetting["DE"]}}
    [] country = "PL" ->
         {{ValidatorSetting["PL"]}, {"ksef_api_base_url"},
          {"ksef_credentials_configured"}}
    [] country = "RO" ->
         {{ValidatorSetting["RO"]}, {"ro_efactura_api_base_url"},
          {"ro_efactura_oauth_configured"}}
    [] country = "ES" ->
         {{ValidatorSetting["ES"]}, {SigningFlag, SigningCommand}}
           \cup {{e} : e \in SpanishEvidence}
    [] OTHER -> {{}}

(* country_production_readiness: no requirement blocks.                    *)
ProductionReady(country, settings) ==
  \A alternatives \in Requirements(country) : alternatives \cap settings # {}

(* validate_official_document runs a command instead of answering that     *)
(* none is configured.                                                     *)
HasValidator(country, settings) ==
  country \in DOMAIN ValidatorSetting /\ ValidatorSetting[country] \in settings
=============================================================================
