SPECIFICATION Spec
CONSTANTS
  ContactList <- MCContactList
  Company <- MCCompany
  Sources <- MCSources
  SenderList <- MCSenderList
  ChannelOf <- MCChannelOf
  TemplateChannels = {"WHATSAPP", "EMAIL"}
  AtFirst <- MCAtFirst
  Limits = {0, 2}
  MaxRetries = 1
  MaxChanges = 1
INVARIANTS TypeOK CompanyFirst DashboardAgrees SenderTurns 
PROPERTIES  RoundNeverBack
CHECK_DEADLOCK FALSE
