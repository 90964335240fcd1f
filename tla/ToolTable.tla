------------------------------ MODULE ToolTable ------------------------------
(***************************************************************************)
(* What each tool, prompt and resource of this server sends to Tag         *)
(* Manager, and which tools it registers: the constants of ToolCalls.      *)
(* First the methods of gtm.Client, then the handlers by file.             *)
(***************************************************************************)
EXTENDS Sequences, TLC

\* One request inside retryWithBackoff, or one outside of it.
AllPages == <<"page">>
FirstPage == <<"first">>
Read == <<"read">>
Write == <<"write">>
ReadThenWrite == <<"read", "write">>
PeekThenWrite == <<"peek", "write">>
NoRequest == <<>>

(* Methods of gtm.Client.                                                  *)

ListAccounts == FirstPage
UpdateAccount == ReadThenWrite

ListContainers == FirstPage
LookupContainer == Read
GetContainerSnippet == Read
UpdateContainer == ReadThenWrite
DeleteContainer == Write
CombineContainers == Write
MoveTagID == Write

ListWorkspaces == AllPages
GetWorkspace == Read
UpdateWorkspace == ReadThenWrite
DeleteWorkspace == Write
QuickPreviewWorkspace == Read
BulkUpdateWorkspace == Write
ResolveWorkspaceConflict == Write
SyncWorkspace == Write

ListVersionHeaders == AllPages
LatestVersionHeader == Read
GetContainerVersion == Read
GetLiveContainerVersion == Read
GetWorkspaceStatus == Read
CreateVersion == <<"version">>
PublishVersion == Write
DeleteVersion == Write
UndeleteVersion == Write
SetLatestVersion == Write
UpdateVersion == ReadThenWrite

ListTags == FirstPage
GetTag == Read
CreateTag == Write
UpdateTag == PeekThenWrite
DeleteTag == Write

ListTriggers == FirstPage
GetTrigger == Read
CreateTrigger == Write
UpdateTrigger == PeekThenWrite
DeleteTrigger == Write

ListVariables == FirstPage
GetVariable == Read
CreateVariable == Write
UpdateVariable == PeekThenWrite
DeleteVariable == Write

ListFolders == AllPages
GetFolderEntities == AllPages
GetFolder == Read
CreateFolder == Write
UpdateFolder == ReadThenWrite
DeleteFolder == Write
MoveEntitiesToFolder == Write
RevertFolder == PeekThenWrite

ListBuiltInVariables == FirstPage
EnableBuiltInVariables == <<"enable">>
DisableBuiltInVariables == Write

ListZones == AllPages
GetZone == Read
CreateZone == Write
UpdateZone == ReadThenWrite
DeleteZone == Write

ListEnvironments == AllPages
GetEnvironment == Read
CreateEnvironment == Write
UpdateEnvironment == ReadThenWrite
ReauthorizeEnvironment == Write
DeleteEnvironment == Write

ListDestinations == FirstPage
GetDestination == Read
LinkDestination == Write

ListGoogleTagConfigs == AllPages
GetGoogleTagConfig == Read
CreateGoogleTagConfig == Write
UpdateGoogleTagConfig == ReadThenWrite
DeleteGoogleTagConfig == Write

ListClients == FirstPage
GetClient == Read
CreateClient == Write
UpdateClient == PeekThenWrite
DeleteClient == Write

ListTransformations == FirstPage
GetTransformation == Read
CreateTransformation == Write
UpdateTransformation == PeekThenWrite
DeleteTransformation == Write

-----------------------------------------------------------------------------
(* Handlers.  A confirmed one looks at input.Confirm before all else.      *)

Plain(requests) == [requests |-> requests, confirm |-> FALSE]
Confirmed(requests) == [requests |-> requests, confirm |-> TRUE]

AccountList == [list_accounts |-> Plain(ListAccounts)]
AccountUpdate == [update_account |-> Plain(UpdateAccount)]
ContainerList == [list_containers |-> Plain(ListContainers)]
ContainerCreation == [create_container |-> Plain(Write)]
ContainerUpdate == [update_container |-> Plain(UpdateContainer)]
ContainerDeletion == [delete_container |-> Confirmed(DeleteContainer)]
ContainerAdmin == [combine_containers |-> Confirmed(CombineContainers),
                   move_tag_id |-> Confirmed(MoveTagID)]
Inspection == [get_version |-> Plain(GetContainerVersion),
               get_live_version |-> Plain(GetLiveContainerVersion),
               lookup_container |-> Plain(LookupContainer),
               get_container_snippet |-> Plain(GetContainerSnippet)]

WorkspaceList == [list_workspaces |-> Plain(ListWorkspaces)]
WorkspaceCreation == [create_workspace |-> Plain(Write)]
WorkspaceMetadata == [get_workspace |-> Plain(GetWorkspace),
                      update_workspace |-> Plain(UpdateWorkspace),
                      delete_workspace |-> Confirmed(DeleteWorkspace),
                      quick_preview_workspace |-> Plain(QuickPreviewWorkspace)]
WorkspaceStatus == [get_workspace_status |-> Plain(GetWorkspaceStatus)]
WorkspaceOperations == [bulk_update_workspace |-> Confirmed(BulkUpdateWorkspace),
                        resolve_workspace_conflict |-> Confirmed(ResolveWorkspaceConflict),
                        sync_workspace |-> Confirmed(SyncWorkspace)]
VersionList == [list_versions |-> Plain(ListVersionHeaders)]
VersionHeader == [get_latest_version_header |-> Plain(LatestVersionHeader)]

VersionTools == [create_version |-> Plain(<<"status">> \o CreateVersion),
                 publish_version |-> Confirmed(PublishVersion)]
VersionLifecycle == [delete_version |-> Confirmed(DeleteVersion),
                     undelete_version |-> Confirmed(UndeleteVersion),
                     set_latest_version |-> Confirmed(SetLatestVersion),
                     update_version |-> Plain(UpdateVersion)]

TagReads == [list_tags |-> Plain(ListTags), get_tag |-> Plain(GetTag)]
TagCreation == [create_tag |-> Plain(CreateTag)]
TagUpdate == [update_tag |-> Plain(UpdateTag)]
TagDeletion == [delete_tag |-> Confirmed(DeleteTag)]
TriggerList == [list_triggers |-> Plain(ListTriggers)]
TriggerRead == [get_trigger |-> Plain(GetTrigger)]
TriggerCreation == [create_trigger |-> Plain(CreateTrigger)]
TriggerUpdate == [update_trigger |-> Plain(UpdateTrigger)]
TriggerDeletion == [delete_trigger |-> Confirmed(DeleteTrigger)]
VariableList == [list_variables |-> Plain(ListVariables)]
VariableRead == [get_variable |-> Plain(GetVariable)]
VariableCreation == [create_variable |-> Plain(CreateVariable)]
VariableUpdate == [update_variable |-> Plain(UpdateVariable)]
VariableDeletion == [delete_variable |-> Confirmed(DeleteVariable)]

FolderReads == [list_folders |-> Plain(ListFolders),
                get_folder_entities |-> Plain(GetFolderEntities)]
FolderAdmin == [get_folder |-> Plain(GetFolder), create_folder |-> Plain(CreateFolder),
                update_folder |-> Plain(UpdateFolder),
                delete_folder |-> Confirmed(DeleteFolder),
                move_entities_to_folder |-> Confirmed(MoveEntitiesToFolder),
                revert_folder |-> Confirmed(RevertFolder)]
\* A built-in variable is reverted without a Get.
Reverts == [revert_workspace_entity |-> Confirmed(PeekThenWrite),
            revert_built_in_variable |-> Confirmed(Write)]
BuiltIns == [list_built_in_variables |-> Plain(ListBuiltInVariables),
             enable_built_in_variables |-> Plain(EnableBuiltInVariables),
             disable_built_in_variables |-> Confirmed(DisableBuiltInVariables)]
Zones == [list_zones |-> Plain(ListZones), get_zone |-> Plain(GetZone),
          create_zone |-> Plain(CreateZone), update_zone |-> Plain(UpdateZone),
          delete_zone |-> Confirmed(DeleteZone)]
Environments == [list_environments |-> Plain(ListEnvironments),
                 get_environment |-> Plain(GetEnvironment),
                 create_environment |-> Plain(CreateEnvironment),
                 update_environment |-> Plain(UpdateEnvironment),
                 reauthorize_environment |-> Confirmed(ReauthorizeEnvironment),
                 delete_environment |-> Confirmed(DeleteEnvironment)]
Destinations == [list_destinations |-> Plain(ListDestinations),
                 get_destination |-> Plain(GetDestination),
                 link_destination |-> Confirmed(LinkDestination)]
GoogleTagConfigs == [list_google_tag_configs |-> Plain(ListGoogleTagConfigs),
                     get_google_tag_config |-> Plain(GetGoogleTagConfig),
                     create_google_tag_config |-> Plain(CreateGoogleTagConfig),
                     update_google_tag_config |-> Plain(UpdateGoogleTagConfig),
                     delete_google_tag_config |-> Confirmed(DeleteGoogleTagConfig)]

TemplateList == [list_templates |-> Plain(FirstPage)]
TemplateRead == [get_template |-> Plain(Read)]
TemplateImport == [import_gallery_template |-> Plain(Write)]
TemplateCreation == [create_template |-> Plain(Write)]
TemplateUpdate == [update_template |-> Plain(PeekThenWrite)]
TemplateDeletion == [delete_template |-> Confirmed(Write)]
ClientReads == [list_clients |-> Plain(ListClients), get_client |-> Plain(GetClient)]
ClientCreation == [create_client |-> Plain(CreateClient)]
ClientUpdate == [update_client |-> Plain(UpdateClient)]
ClientDeletion == [delete_client |-> Confirmed(DeleteClient)]
TransformationReads == [list_transformations |-> Plain(ListTransformations),
                        get_transformation |-> Plain(GetTransformation)]
TransformationCreation == [create_transformation |-> Plain(CreateTransformation)]
TransformationUpdate == [update_transformation |-> Plain(UpdateTransformation)]
TransformationDeletion == [delete_transformation |-> Confirmed(DeleteTransformation)]
Guidance == [get_tag_templates |-> Plain(NoRequest),
             get_trigger_templates |-> Plain(NoRequest)]
Utility == [ping |-> Plain(NoRequest), auth_status |-> Plain(NoRequest)]

\* A prompt that quotes the workspace sends its three lists in this order; the
\* first error ends it.
Quoting == Plain(ListTags \o ListTriggers \o ListVariables)
AuditPrompt == [audit_container |-> Quoting]
TrackingPlanPrompt == [generate_tracking_plan |-> Quoting]
ReviewPrompt == [best_practices_review |-> Quoting]
SetupPrompt == [suggest_ga4_setup |-> Plain(NoRequest)]
SafeEditPrompt == [plan_safe_edit |-> Plain(NoRequest)]
GalleryPrompt == [find_gallery_template |-> Plain(NoRequest)]
Resources == [accounts |-> Plain(ListAccounts), containers |-> Plain(ListContainers),
              workspaces |-> Plain(ListWorkspaces), tags |-> Plain(ListTags),
              triggers |-> Plain(ListTriggers), variables |-> Plain(ListVariables),
              best_practices |-> Plain(NoRequest), best_practices_topic |-> Plain(NoRequest)]

-----------------------------------------------------------------------------
(* Registration.                                                           *)

\* The handlers of each tool group.
Groups ==
    [accounts |-> AccountList @@ AccountUpdate @@ ContainerList @@ ContainerCreation
                  @@ ContainerUpdate @@ ContainerDeletion
                  @@ [t \in {"lookup_container", "get_container_snippet"} |-> Inspection[t]],
     workspaces |-> WorkspaceList @@ WorkspaceCreation @@ WorkspaceMetadata @@ WorkspaceStatus
                    @@ VersionList @@ VersionHeader @@ VersionTools
                    @@ [t \in {"get_version", "get_live_version"} |-> Inspection[t]],
     tags |-> TagReads @@ TagCreation @@ TagUpdate @@ TagDeletion,
     triggers |-> TriggerList @@ TriggerRead @@ TriggerCreation @@ TriggerUpdate
                  @@ TriggerDeletion,
     variables |-> VariableList @@ VariableRead @@ VariableCreation @@ VariableUpdate
                   @@ VariableDeletion,
     folders |-> FolderReads,
     builtins |-> BuiltIns,
     zones |-> Zones,
     templates |-> TemplateList @@ TemplateRead @@ TemplateImport @@ TemplateCreation
                   @@ TemplateUpdate @@ TemplateDeletion,
     server |-> ClientReads @@ ClientCreation @@ ClientUpdate @@ ClientDeletion
                @@ TransformationReads @@ TransformationCreation @@ TransformationUpdate
                @@ TransformationDeletion,
     guidance |-> Guidance,
     environments |-> Environments,
     destinations |-> Destinations,
     gtag |-> GoogleTagConfigs,
     container_admin |-> ContainerAdmin,
     folder_admin |-> FolderAdmin,
     workspace_admin |-> WorkspaceOperations,
     version_admin |-> VersionLifecycle,
     reverts |-> Reverts]

DefaultGroups == {"accounts", "workspaces", "tags", "triggers", "variables", "folders",
                  "builtins", "zones", "templates", "server", "guidance"}

\* The groups that GTM_TOOL_GROUPS names; an unknown name stops the server.
Chosen(names) ==
    IF names = {} THEN DefaultGroups
    ELSE IF "all" \in names THEN DOMAIN Groups ELSE names

\* Prompts and resources are there whatever groups are chosen.
Registered(names) ==
    LET chosen == Chosen(names)
        grouped == UNION {DOMAIN Groups[g] : g \in chosen} IN
    Utility @@ Resources @@ AuditPrompt @@ TrackingPlanPrompt @@ ReviewPrompt
    @@ SetupPrompt @@ SafeEditPrompt @@ GalleryPrompt
    @@ [t \in grouped |-> Groups[CHOOSE g \in chosen : t \in DOMAIN Groups[g]][t]]
=============================================================================
